---- MODULE Spec2Model ----
(***************************************************************************)
(* A model of the pre-vhs macro expansion engine (createEngine /           *)
(* processText), its header parser, its helpers and its transform          *)
(* pipeline.                                                               *)
(*                                                                         *)
(* Text is modelled as a sequence of characters.  To keep documents short, *)
(* one model character stands for one lexical unit of the source text: a   *)
(* word ("Type", "foo"), a placeholder ("$1", "$*"), a space, a comma, a   *)
(* newline, a backtick.    Every string operation of the code (trim,       *)
(* split, replace, regular-expression tests) is computed on these          *)
(* sequences the way the code computes it on JavaScript strings.           *)
(***************************************************************************)
EXTENDS Integers, Sequences, FiniteSets, TLC

(***************************************************************************)
(* Characters and character classes                                        *)
(***************************************************************************)

\* the backtick, the backslash and the two quote characters
BQ == "bq"

BS == "bs"

DQ == "dq"

SQ == "sq"

\* \s of the regular expressions: the space and the newline
IsSpace(c) == c \in {" ", "\n"}

\* the placeholder units: \$(\d+) and \$\*
PosPlaceholders == {"$1", "$2", "$3"}

IsPosPlaceholder(c) == c \in PosPlaceholders

IsStarPlaceholder(c) == c = "$*"

\* Number(m.slice(1)) of a positional placeholder
PlaceholderIndex(c) == CASE c = "$1" -> 1 [] c = "$2" -> 2 [] c = "$3" -> 3 [] OTHER -> 0

\* the characters that are not \w (everything else stands for a word)
NonWordChars == {" ", "\n", ",", ">", "=", "!", BQ, BS, "#", "/", DQ, SQ, "$1", "$2", "$3", "$*"}

IsWordChar(c) == c \notin NonWordChars

(***************************************************************************)
(* String helpers (JavaScript String methods)                              *)
(***************************************************************************)

RECURSIVE TrimLeft(_)
TrimLeft(s) == IF s # <<>> /\ IsSpace(Head(s)) THEN TrimLeft(Tail(s)) ELSE s

RECURSIVE TrimRight(_)
TrimRight(s) ==
    IF s # <<>> /\ IsSpace(s[Len(s)]) THEN TrimRight(SubSeq(s, 1, Len(s) - 1)) ELSE s

\* String.prototype.trim
Trim(s) == TrimRight(TrimLeft(s))

\* the index of the first character of s satisfying the class, or Len(s)+1
RECURSIVE FirstSpaceFrom(_, _)
FirstSpaceFrom(s, k) ==
    IF k > Len(s) THEN k
    ELSE IF IsSpace(s[k]) THEN k ELSE FirstSpaceFrom(s, k + 1)

\* s.split(sep) for a one-character separator
RECURSIVE SplitOn(_, _)
SplitOn(s, sep) ==
    IF \E k \in 1..Len(s) : s[k] = sep
    THEN LET k == CHOOSE j \in 1..Len(s) : s[j] = sep /\ \A m \in 1..(j - 1) : s[m] # sep
         IN  <<SubSeq(s, 1, k - 1)>> \o SplitOn(SubSeq(s, k + 1, Len(s)), sep)
    ELSE <<s>>

\* arr.map(f).filter(Boolean) with f = trim
RECURSIVE TrimAndFilter(_)
TrimAndFilter(ss) ==
    IF ss = <<>> THEN <<>>
    ELSE LET t == Trim(Head(ss))
         IN  (IF t = <<>> THEN <<>> ELSE <<t>>) \o TrimAndFilter(Tail(ss))

\* arr.join("\n")
RECURSIVE JoinNl(_)
JoinNl(ss) ==
    IF ss = <<>> THEN <<>>
    ELSE IF Len(ss) = 1 THEN ss[1]
    ELSE ss[1] \o <<"\n">> \o JoinNl(Tail(ss))

\* the words of s.split(/\s+/) after trimming, empty words dropped
RECURSIVE SplitWs(_)
SplitWs(s) ==
    LET t == TrimLeft(s)
    IN  IF t = <<>> THEN <<>>
        ELSE LET k == FirstSpaceFrom(t, 1)
             IN  <<SubSeq(t, 1, k - 1)>> \o SplitWs(SubSeq(t, k, Len(t)))

\* flatten a list of lists
RECURSIVE Flatten(_)
Flatten(ss) == IF ss = <<>> THEN <<>> ELSE Head(ss) \o Flatten(Tail(ss))

\* s.includes(c) for a one-character needle
Includes(s, c) == \E k \in 1..Len(s) : s[k] = c

(***************************************************************************)
(* helpers.js                                                              *)
(***************************************************************************)

\* s.replace(/BQ/g, "\\BQ"): only backticks are escaped
RECURSIVE EscapeBackticks(_)
EscapeBackticks(s) ==
    IF s = <<>> THEN <<>>
    ELSE (IF Head(s) = BQ THEN <<BS, BQ>> ELSE <<Head(s)>>) \o EscapeBackticks(Tail(s))

\* a variant that escapes nothing
formatType_NoEscape(text) == <<"Type", " ", BQ>> \o text \o <<BQ>>

formatType(text) == <<"Type", " ", BQ>> \o EscapeBackticks(text) \o <<BQ>>

baseCommandName(line) ==
    LET trimmed == Trim(line)
    IN  IF trimmed = <<>> THEN <<>>
        ELSE SubSeq(trimmed, 1, FirstSpaceFrom(trimmed, 1) - 1)

Max(a, b) == IF a >= b THEN a ELSE b

\* the highest $N of one token
RECURSIVE MaxIdxOfToken(_)
MaxIdxOfToken(cmd) ==
    IF cmd = <<>> THEN 0
    ELSE Max(PlaceholderIndex(Head(cmd)), MaxIdxOfToken(Tail(cmd)))

HasStarToken(cmd) == \E k \in 1..Len(cmd) : IsStarPlaceholder(cmd[k])

HasPosToken(cmd) == \E k \in 1..Len(cmd) : IsPosPlaceholder(cmd[k])

RECURSIVE MaxIdxOfTokens(_)
MaxIdxOfTokens(cmds) ==
    IF cmds = <<>> THEN 0
    ELSE Max(MaxIdxOfToken(Head(cmds)), MaxIdxOfTokens(Tail(cmds)))

maxArgIndex(cmds) ==
    [max |-> MaxIdxOfTokens(cmds),
     hasStar |-> \E k \in 1..Len(cmds) : HasStarToken(cmds[k])]

(***************************************************************************)
(* JavaScript values: an absent value (undefined) is the empty sequence,   *)
(* a present string s is <<s>>.  An argument array is its indexed part     *)
(* (index 1 first) and its "*" property.                                   *)
(***************************************************************************)

None == <<>>

Some(v) == <<v>>

\* v ?? ""
OrEmpty(o) == IF o = None THEN <<>> ELSE o[1]

EmptyArgs == [pos |-> <<>>, star |-> None]

\* args[k]
ArgAt(args, k) == IF k \in 1..Len(args.pos) THEN args.pos[k] ELSE None

\* args[k] = v on a JavaScript array (holes up to k stay undefined)
SetArg(args, k, v) ==
    [args EXCEPT !.pos =
        [j \in 1..Max(Len(args.pos), k) |-> IF j = k THEN Some(v) ELSE ArgAt(args, j)]]

\* the name of a macro, as the registry keys it
Name(w) == <<w>>

(***************************************************************************)
(* helpers.js: makeAliasMacro                                              *)
(***************************************************************************)

\* bodyCmd.replace(/\$\*/g, ...) inside aliasMacro
RECURSIVE AliasSubstStar(_, _, _)
AliasSubstStar(cmd, args, skipLineArgs) ==
    IF cmd = <<>> THEN <<>>
    ELSE (IF IsStarPlaceholder(Head(cmd))
          THEN (IF skipLineArgs THEN <<"$*">> ELSE OrEmpty(args.star))
          ELSE <<Head(cmd)>>) \o AliasSubstStar(Tail(cmd), args, skipLineArgs)

\* expanded.replace(/\$(\d+)/g, ...) inside aliasMacro
RECURSIVE AliasSubstPos(_, _, _)
AliasSubstPos(cmd, args, skipLineArgs) ==
    IF cmd = <<>> THEN <<>>
    ELSE (IF IsPosPlaceholder(Head(cmd))
          THEN (IF skipLineArgs /\ PlaceholderIndex(Head(cmd)) = 1
                THEN <<"$1">>
                ELSE OrEmpty(ArgAt(args, PlaceholderIndex(Head(cmd)))))
          ELSE <<Head(cmd)>>) \o AliasSubstPos(Tail(cmd), args, skipLineArgs)

\* the function makeAliasMacro returns, applied to the call-site args
RECURSIVE aliasMacro(_, _)
aliasMacro(bodyCmds, args) ==
    IF bodyCmds = <<>> THEN <<>>
    ELSE LET bodyCmd == Head(bodyCmds)
             skipLineArgs == baseCommandName(bodyCmd) = Name("EachLine")
         IN  <<AliasSubstPos(AliasSubstStar(bodyCmd, args, skipLineArgs), args, skipLineArgs)>>
             \o aliasMacro(Tail(bodyCmds), args)

\* a macro function value: its kind, the token list it is built from, and
\* the eachLine / hasStar properties attached to the function
makeAliasMacro(bodyCmds) ==
    [kind |-> "alias", body |-> bodyCmds, eachLine |-> FALSE,
     hasStar |-> \E k \in 1..Len(bodyCmds) : HasStarToken(bodyCmds[k])]

(***************************************************************************)
(* index.js: the built-in Type macro and argument substitution             *)
(***************************************************************************)

\* /^Q.*Q$/.test(s) for a quote character Q ("." does not match a newline)
IsWrappedIn(s, q) ==
    /\ Len(s) >= 2
    /\ s[1] = q
    /\ s[Len(s)] = q
    /\ \A k \in 2..(Len(s) - 1) : s[k] # "\n"

\* rawCmd.replace(/^Type\b/, "")
StripTypeWord(rawCmd) ==
    IF /\ rawCmd # <<>>
       /\ Head(rawCmd) = "Type"
       /\ (Len(rawCmd) = 1 \/ ~IsWordChar(rawCmd[2]))
    THEN Tail(rawCmd)
    ELSE rawCmd

\* the built-in Type(_payload, rawCmd)
TypeMacro(payload, rawCmd) ==
    LET remainder == Trim(StripTypeWord(rawCmd))
        stripped == IF IsWrappedIn(remainder, DQ) \/ IsWrappedIn(remainder, SQ)
                    THEN SubSeq(remainder, 2, Len(remainder) - 1)
                    ELSE remainder
        text == IF stripped # <<>> THEN stripped ELSE payload
    IN  IF IsWrappedIn(remainder, BQ)
        THEN <<Trim(rawCmd)>>
        ELSE <<formatType(text)>>

TypeFn == [kind |-> "Type", body |-> <<>>, eachLine |-> FALSE, hasStar |-> FALSE]

\* a registered function that ignores its arguments and returns a fixed list
ConstFn(tokens) == [kind |-> "const", body |-> tokens, eachLine |-> FALSE, hasStar |-> FALSE]

\* a registered function carrying the eachLine marker (as the packs' EachLine)
EachLineFn == [kind |-> "const", body |-> <<>>, eachLine |-> TRUE, hasStar |-> TRUE]

\* a registered function that returns something that is not an array
NonArrayFn == [kind |-> "nonarray", body |-> <<>>, eachLine |-> FALSE, hasStar |-> FALSE]

\* a registered function that writes into the array it is given,
\* (payload, raw, args) => { args[1] = "zap"; return ["Echo $1"]; }
ClobberFn == [kind |-> "clobber", body |-> <<>>, eachLine |-> FALSE, hasStar |-> FALSE]

\* entry.fn(payloadForCall, trimmed, effectiveArgs, ctx): the returned array,
\* or isArray FALSE
CallMacro(fn, payload, rawCmd, args) ==
    CASE fn.kind = "Type"  -> [isArray |-> TRUE, items |-> TypeMacro(payload, rawCmd)]
      [] fn.kind = "alias" -> [isArray |-> TRUE, items |-> aliasMacro(fn.body, args)]
      [] fn.kind = "const" -> [isArray |-> TRUE, items |-> fn.body]
      [] fn.kind = "clobber" -> [isArray |-> TRUE, items |-> << <<"Echo", " ", "$1">> >>]
      [] OTHER             -> [isArray |-> FALSE, items |-> <<>>]

RECURSIVE SubstStar(_, _)
SubstStar(str, args) ==
    IF str = <<>> THEN <<>>
    ELSE (IF IsStarPlaceholder(Head(str)) THEN OrEmpty(args.star) ELSE <<Head(str)>>)
         \o SubstStar(Tail(str), args)

RECURSIVE SubstPos(_, _)
SubstPos(str, args) ==
    IF str = <<>> THEN <<>>
    ELSE (IF IsPosPlaceholder(Head(str))
          THEN OrEmpty(ArgAt(args, PlaceholderIndex(Head(str))))
          ELSE <<Head(str)>>) \o SubstPos(Tail(str), args)

\* a variant that leaves a reference to an index without a value in place
RECURSIVE SubstPos_KeepUnbound(_, _)
SubstPos_KeepUnbound(str, args) ==
    IF str = <<>> THEN <<>>
    ELSE (IF IsPosPlaceholder(Head(str)) /\ ArgAt(args, PlaceholderIndex(Head(str))) # None
          THEN OrEmpty(ArgAt(args, PlaceholderIndex(Head(str))))
          ELSE <<Head(str)>>) \o SubstPos_KeepUnbound(Tail(str), args)

substituteArgs_KeepUnbound(str, args) == SubstPos_KeepUnbound(SubstStar(str, args), args)

\* $* is replaced first, then every $N of the result
substituteArgs(str, args) == SubstPos(SubstStar(str, args), args)

(***************************************************************************)
(* parser.js                                                               *)
(***************************************************************************)

isBlankLine(line) == TrimLeft(line) = <<>>

isComment(line) ==
    LET t == TrimLeft(line)
    IN  \/ (t # <<>> /\ t[1] = "#")
        \/ (Len(t) >= 2 /\ t[1] = "/" /\ t[2] = "/")

isDirective(line) ==
    LET t == TrimLeft(line) IN t # <<>> /\ t[1] = ">"

isMalformedAlias(line) == Includes(line, "=")

\* the length of the longest prefix of s made of word characters
RECURSIVE WordRunLen(_)
WordRunLen(s) ==
    IF s # <<>> /\ IsWordChar(Head(s)) THEN 1 + WordRunLen(Tail(s)) ELSE 0

\* tryParseUseStatement: /^\s*Use\s*(.*)$/ and /^\s*Use\b/
tryParseUseStatement(line) ==
    LET t == TrimLeft(line)
        isUse == /\ t # <<>>
                 /\ t[1] = "Use"
                 /\ (Len(t) = 1 \/ ~IsWordChar(t[2]))
        args == IF isUse THEN Trim(Tail(t)) ELSE <<>>
    IN  IF ~isUse THEN [matched |-> FALSE, names |-> <<>>, issue |-> "none"]
        ELSE IF args = <<>> THEN [matched |-> TRUE, names |-> <<>>, issue |-> "emptyUse"]
        ELSE [matched |-> TRUE, names |-> SplitWs(args), issue |-> "none"]

\* tryParseAlias: /^\s*([A-Za-z_]\w*)\s*=\s*(.+)$/
tryParseAlias(line) ==
    LET t == TrimLeft(line)
        n == WordRunLen(t)
        afterName == TrimLeft(SubSeq(t, n + 1, Len(t)))
        hasEq == n >= 1 /\ afterName # <<>> /\ afterName[1] = "="
        afterEq == IF hasEq THEN Tail(afterName) ELSE <<>>
        \* \s*(.+) needs at least one character after the "="
        rhs == IF TrimLeft(afterEq) # <<>> THEN TrimLeft(afterEq) ELSE afterEq
        bodyCmds == TrimAndFilter(SplitOn(rhs, ","))
    IN  IF ~hasEq \/ afterEq = <<>>
        THEN [matched |-> FALSE, hasMacro |-> FALSE, name |-> <<>>, body |-> <<>>,
              issue |-> "none"]
        ELSE IF bodyCmds = <<>>
        THEN [matched |-> TRUE, hasMacro |-> FALSE, name |-> <<>>, body |-> <<>>,
              issue |-> "emptyAlias"]
        ELSE [matched |-> TRUE, hasMacro |-> TRUE, name |-> SubSeq(t, 1, n),
              body |-> bodyCmds, issue |-> "none"]

\* macrosFromHeader[name] = macro: an object keeps one value per key
SetHeaderMacro(pairs, name, fn) ==
    IF \E k \in 1..Len(pairs) : pairs[k].name = name
    THEN [k \in 1..Len(pairs) |->
            IF pairs[k].name = name THEN [name |-> name, fn |-> fn] ELSE pairs[k]]
    ELSE Append(pairs, [name |-> name, fn |-> fn])

\* reportHeaderIssue: nothing when "off", a warning when "warn", a throw
\* when "error"
ReportIssue(acc, mode, lineNo, kind) ==
    IF mode = "off" THEN acc
    ELSE IF mode = "error"
    THEN [acc EXCEPT !.threw = TRUE, !.issues = Append(@, [lineNo |-> lineNo, kind |-> kind])]
    ELSE [acc EXCEPT !.issues = Append(@, [lineNo |-> lineNo, kind |-> kind])]

\* the loop of parseFileHeader from line i (1-based) on
RECURSIVE ParseHeaderFrom(_, _, _, _)
ParseHeaderFrom(lines, i, mode, acc) ==
    IF i > Len(lines) \/ acc.threw THEN acc
    ELSE
    LET line == lines[i]
        use == tryParseUseStatement(line)
        alias == tryParseAlias(line)
    IN  IF isBlankLine(line) \/ isComment(line)
        THEN ParseHeaderFrom(lines, i + 1, mode, acc)
        ELSE IF isDirective(line)
        THEN LET a == IF acc.hasHeaderContent
                      THEN ReportIssue(acc, mode, i, "directiveInHeader")
                      ELSE acc
             IN  [a EXCEPT !.bodyStart = i - 1]
        ELSE IF use.matched
        THEN LET a0 == IF use.issue # "none" THEN ReportIssue(acc, mode, i, use.issue)
                       ELSE acc
                 a1 == IF use.names # <<>>
                       THEN [a0 EXCEPT !.useNames = @ \o use.names,
                                       !.hasHeaderContent = TRUE]
                       ELSE a0
             IN  ParseHeaderFrom(lines, i + 1, mode, a1)
        ELSE IF alias.matched
        THEN LET a0 == IF alias.issue # "none" THEN ReportIssue(acc, mode, i, alias.issue)
                       ELSE acc
                 a1 == IF alias.hasMacro
                       THEN [a0 EXCEPT
                               !.macrosFromHeader =
                                   SetHeaderMacro(@, alias.name, makeAliasMacro(alias.body)),
                               !.hasHeaderContent = TRUE]
                       ELSE a0
             IN  ParseHeaderFrom(lines, i + 1, mode, a1)
        ELSE IF isMalformedAlias(line)
        THEN [ReportIssue(acc, mode, i, "malformedAlias") EXCEPT !.bodyStart = i - 1]
        ELSE [acc EXCEPT !.bodyStart = i - 1]

\* parseFileHeader: bodyStart is the 0-based index of the first body line
parseFileHeader(lines, headerValidation) ==
    ParseHeaderFrom(lines, 1, headerValidation,
        [macrosFromHeader |-> <<>>, useNames |-> <<>>, bodyStart |-> Len(lines),
         hasHeaderContent |-> FALSE, issues |-> <<>>, threw |-> FALSE])

(***************************************************************************)
(* index.js: the macro registry                                            *)
(***************************************************************************)

\* macroRegistry.has(name)
HasMacro(reg, name) == name \in DOMAIN reg

\* macroRegistry.set(name, { fn, requireUse })
SetMacro(reg, name, fn, requireUse) ==
    [n \in (DOMAIN reg) \cup {name} |->
        IF n = name THEN [fn |-> fn, requireUse |-> requireUse] ELSE reg[n]]

\* registerMacros(macros, { requireUse }) over the entries of macros in order
RECURSIVE registerMacros(_, _, _)
registerMacros(reg, pairs, requireUse) ==
    IF pairs = <<>> THEN reg
    ELSE registerMacros(SetMacro(reg, Head(pairs).name, Head(pairs).fn, requireUse),
                        Tail(pairs), requireUse)

\* the names registerMacros warns about (a duplicate registration)
RECURSIVE CollisionWarnings(_, _, _)
CollisionWarnings(reg, pairs, warnOnMacroCollision) ==
    IF pairs = <<>> THEN <<>>
    ELSE (IF warnOnMacroCollision /\ HasMacro(reg, Head(pairs).name)
          THEN <<Head(pairs).name>> ELSE <<>>)
         \o CollisionWarnings(SetMacro(reg, Head(pairs).name, Head(pairs).fn, FALSE),
                              Tail(pairs), warnOnMacroCollision)

\* the registry right after createEngine: the built-in Type, always on
BuiltinRegistry == SetMacro(<<>>, Name("Type"), TypeFn, FALSE)

\* a variant that takes every registered macro for an active one
IsActive_IgnoreUse(reg, useSet, base) == HasMacro(reg, base)

\* entry && (entry.requireUse === false || useSet.has(base))
IsActive(reg, useSet, base) ==
    HasMacro(reg, base) /\ (reg[base].requireUse = FALSE \/ base \in useSet)

(***************************************************************************)
(* index.js: the argument binder                                           *)
(***************************************************************************)

\* tokens[i].trim().split(/\s+/)[0]
LeadingWord(tok) == baseCommandName(tok)

IsEachLineToken(reg, tok) ==
    HasMacro(reg, LeadingWord(tok)) /\ reg[LeadingWord(tok)].fn.eachLine

\* the highest index the tokens a registered macro returns refer to
BodyMaxIdx(reg, tok) ==
    IF HasMacro(reg, LeadingWord(tok)) /\ reg[LeadingWord(tok)].fn.kind \in {"const", "alias"}
    THEN MaxIdxOfTokens(reg[LeadingWord(tok)].fn.body)
    ELSE 0

RECURSIVE IndirectMaxIdx(_, _)
IndirectMaxIdx(reg, tokens) ==
    IF tokens = <<>> THEN 0
    ELSE Max(BodyMaxIdx(reg, Head(tokens)), IndirectMaxIdx(reg, Tail(tokens)))

\* a variant that also counts the indices the invoked macros' output refers to
analyzeArguments_Indirect(tokens, reg) ==
    LET m == maxArgIndex(tokens)
        hasMacroStar ==
            \E k \in 1..Len(tokens) :
                /\ HasMacro(reg, LeadingWord(tokens[k]))
                /\ (reg[LeadingWord(tokens[k])].fn.hasStar
                      \/ reg[LeadingWord(tokens[k])].fn.eachLine)
        hasStar == m.hasStar \/ hasMacroStar
        n == Max(m.max, IndirectMaxIdx(reg, tokens))
        hasBareType ==
            n = 0 /\ ~hasStar /\ \E k \in 1..Len(tokens) : Trim(tokens[k]) = Name("Type")
    IN  [effectiveMaxIdx |-> IF hasBareType THEN 1 ELSE n, hasStar |-> hasStar]

analyzeArguments(tokens, reg) ==
    LET hasEach == \E k \in 1..Len(tokens) : IsEachLineToken(reg, tokens[k])
        \* 1-based position of the first eachLine token
        eachLineIndex ==
            IF hasEach
            THEN CHOOSE k \in 1..Len(tokens) :
                    /\ IsEachLineToken(reg, tokens[k])
                    /\ \A j \in 1..(k - 1) : ~IsEachLineToken(reg, tokens[j])
            ELSE 0
        tokensForArgs == IF hasEach THEN SubSeq(tokens, 1, eachLineIndex - 1) ELSE tokens
        m == maxArgIndex(tokensForArgs)
        hasMacroStar ==
            \E k \in 1..Len(tokensForArgs) :
                /\ HasMacro(reg, LeadingWord(tokensForArgs[k]))
                /\ reg[LeadingWord(tokensForArgs[k])].fn.hasStar
        hasStar == m.hasStar \/ hasMacroStar \/ hasEach
        hasBareType ==
            /\ m.max = 0
            /\ ~hasStar
            /\ \E k \in 1..Len(tokensForArgs) : Trim(tokensForArgs[k]) = Name("Type")
    IN  [effectiveMaxIdx |-> IF hasBareType THEN 1 ELSE m.max, hasStar |-> hasStar]

\* bodyLines[i] ?? "" for a 0-based index i
BodyLineAt(bodyLines, i) == IF i + 1 \in 1..Len(bodyLines) THEN bodyLines[i + 1] ELSE <<>>

\* a variant that stops in front of the blank line and leaves it in the input
RECURSIVE ConsumeStar_KeepTerminator(_, _, _)
ConsumeStar_KeepTerminator(bodyLines, i, starLines) ==
    IF i + 1 < Len(bodyLines)
    THEN LET nextLine == bodyLines[i + 2]
         IN  IF Trim(nextLine) = <<>>
             THEN [i |-> i, starLines |-> starLines]
             ELSE ConsumeStar_KeepTerminator(bodyLines, i + 1, Append(starLines, nextLine))
    ELSE [i |-> i, starLines |-> starLines]

\* the while loop of consumeArguments: i is the 0-based cursor
RECURSIVE ConsumeStar(_, _, _)
ConsumeStar(bodyLines, i, starLines) ==
    IF i + 1 < Len(bodyLines)
    THEN LET nextLine == bodyLines[i + 2]
         IN  IF Trim(nextLine) = <<>>
             THEN [i |-> i + 1, starLines |-> starLines]
             ELSE ConsumeStar(bodyLines, i + 1, Append(starLines, nextLine))
    ELSE [i |-> i, starLines |-> starLines]

\* a variant that binds $k to the line k - 1 after the directive
consumeArguments_OffByOne(bodyLines, currentIndex, effectiveMaxIdx, hasStar) ==
    LET positional ==
            [pos |-> [k \in 1..effectiveMaxIdx |->
                        Some(BodyLineAt(bodyLines, currentIndex + k - 1))],
             star |-> None]
        i1 == currentIndex + effectiveMaxIdx
        st == ConsumeStar(bodyLines, i1, <<>>)
    IN  IF ~hasStar THEN [args |-> positional, newIndex |-> i1]
        ELSE [args |-> [positional EXCEPT !.star = Some(JoinNl(st.starLines))],
              newIndex |-> st.i]

\* consumeArguments: currentIndex and newIndex are 0-based indices of bodyLines
consumeArguments(bodyLines, currentIndex, effectiveMaxIdx, hasStar) ==
    LET positional ==
            [pos |-> [k \in 1..effectiveMaxIdx |->
                        Some(BodyLineAt(bodyLines, currentIndex + k))],
             star |-> None]
        i1 == currentIndex + effectiveMaxIdx
        st == ConsumeStar(bodyLines, i1, <<>>)
        starValue == JoinNl(st.starLines)
        withStar == [positional EXCEPT !.star = Some(starValue)]
    IN  IF ~hasStar THEN [args |-> positional, newIndex |-> i1]
        ELSE [args |-> IF effectiveMaxIdx < 1 /\ ArgAt(positional, 1) = None
                       THEN SetArg(withStar, 1, starValue)
                       ELSE withStar,
              newIndex |-> st.i]

\* args[1] || args["*"] || ""
DirectivePayload(args) ==
    IF OrEmpty(ArgAt(args, 1)) # <<>> THEN OrEmpty(ArgAt(args, 1)) ELSE OrEmpty(args.star)

\* line.replace(/^\s*>\s*/, "").split(",").map(trim).filter(Boolean)
DirectiveTokens(line) ==
    TrimAndFilter(SplitOn(TrimLeft(Tail(TrimLeft(line))), ","))

(***************************************************************************)
(* index.js: the guards and the call preparation of the expander           *)
(***************************************************************************)

\* a variant that lets one consideration too many through
checkExpansionLimits_OffByOne(expansionSteps, maxSteps) == expansionSteps > maxSteps

\* checkExpansionLimits throws when this is TRUE
checkExpansionLimits(expansionSteps, maxSteps) == expansionSteps >= maxSteps

InStack(stack, base) == \E k \in 1..Len(stack) : stack[k] = base

\* a variant that looks at the depth before it looks for the name on the stack
validateRecursion_DepthFirst(base, stack, maxDepth) ==
    IF Len(stack) >= maxDepth THEN "depth"
    ELSE IF InStack(stack, base) THEN "recursion"
    ELSE "ok"

\* a variant that lets one nesting level too many through
validateRecursion_OffByOne(base, stack, maxDepth) ==
    IF InStack(stack, base) THEN "recursion"
    ELSE IF Len(stack) > maxDepth THEN "depth"
    ELSE "ok"

\* validateRecursion: "ok", or the error it throws
validateRecursion(base, stack, maxDepth) ==
    IF InStack(stack, base) THEN "recursion"
    ELSE IF Len(stack) >= maxDepth THEN "depth"
    ELSE "ok"

\* /\$(\d+)/.test(token) || /\$\*/.test(token)
HadPlaceholders(token) == HasPosToken(token) \/ HasStarToken(token)

\* trimmed.replace(/^\S+\s*/, "").trim()
RemainderText(trimmed) ==
    Trim(SubSeq(trimmed, FirstSpaceFrom(trimmed, 1), Len(trimmed)))

prepareCallArgs(trimmed, payload, args, hadPlaceholders) ==
    LET remainderText == RemainderText(trimmed)
        payloadForCall ==
            IF hadPlaceholders THEN payload
            ELSE IF remainderText # <<>> THEN remainderText ELSE payload
    IN  [payloadForCall |-> payloadForCall,
         effectiveArgs |-> IF remainderText # <<>> /\ ~hadPlaceholders
                           THEN SetArg(args, 1, remainderText)
                           ELSE args]

\* trimmedToken.replace(/^EachLine\b/, "")
StripEachLineWord(tok) ==
    IF /\ tok # <<>>
       /\ Head(tok) = "EachLine"
       /\ (Len(tok) = 1 \/ ~IsWordChar(tok[2]))
    THEN Tail(tok)
    ELSE tok

\* buildEachLineTemplate: startIndex is the 1-based position of the token
buildEachLineTemplate(tokens, startIndex, trimmedToken) ==
    LET remainder == Trim(StripEachLineWord(trimmedToken))
    IN  (IF remainder # <<>> THEN <<remainder>> ELSE <<>>)
        \o TrimAndFilter(SubSeq(tokens, startIndex + 1, Len(tokens)))

\* text.split(/\r?\n/)
SplitLines(text) == SplitOn(text, "\n")

(***************************************************************************)
(* transforms.js: the transform pipeline.  A hook is named by an           *)
(* identifier; HookResult gives what the hook function returns: an array,  *)
(* a string, or anything else (null, undefined).                           *)
(***************************************************************************)

ArrayResult(items) == [type |-> "array", items |-> items]

StringResult(str) == [type |-> "string", items |-> <<str>>]

OtherResult == [type |-> "other", items |-> <<>>]

EmptyPipeline == [header |-> <<>>, preExpandToken |-> <<>>, postExpand |-> <<>>,
                  finalize |-> <<>>]

Phases == {"header", "preExpandToken", "postExpand", "finalize"}

\* registerTransform(phase, fn)
registerTransform(transforms, phase, fn) ==
    IF phase \notin Phases THEN transforms
    ELSE [transforms EXCEPT ![phase] = Append(@, fn)]

\* the header hooks of the tests: cmds.map((c) => c + "-H1")
HeaderHook(h, cmds) ==
    IF h \in {"-H1", "-H2"}
    THEN ArrayResult([k \in 1..Len(cmds) |-> Append(cmds[k], h)])
    ELSE OtherResult

\* the preExpandToken hook of the coverage test (Multi / Single / Blank)
PreHook(h, token) ==
    IF h = "testPre" /\ token # <<>> /\ token[1] = "Multi"
    THEN ArrayResult(<<formatType(TrimLeft(Tail(token))), <<"Enter">>>>)
    ELSE IF h = "testPre" /\ token # <<>> /\ token[1] = "Single"
    THEN StringResult(formatType(TrimLeft(Tail(token))))
    ELSE IF h = "testPre" /\ token # <<>> /\ token[1] = "Blank"
    THEN StringResult(<<" ", " ", " ">>)
    ELSE IF h = "twice" /\ token = <<"Enter">>
    THEN StringResult(<<"Enter", " ", "2">>)
    ELSE IF h = "drop" /\ token # <<>> /\ token[1] = "Skip"
    THEN ArrayResult(<<>>)
    ELSE OtherResult

\* the postExpand hook of the coverage test
PostHook(h, line, lastLineBase) ==
    IF h = "testPost" /\ line = <<"Enter">>
    THEN ArrayResult(<<(<<"Sleep", " ", "1s">>), <<"Enter">>>>)
    ELSE IF h = "testPost" /\ line = formatType(<<"hi">>)
    THEN StringResult(formatType(<<"hi", "!">>))
    ELSE IF h = "slow" /\ line = <<"Sleep", " ", "1s">>
    THEN StringResult(<<"Sleep", " ", "2s">>)
    ELSE IF h = "mute" /\ line = <<"Enter">>
    THEN ArrayResult(<<>>)
    ELSE IF h = "after" /\ baseCommandName(line) # <<>>
    THEN StringResult(line \o <<" ", "#">> \o lastLineBase)
    ELSE OtherResult

\* the finalize hook of the coverage test: [...lines, "Done"]
FinalizeHook(h, lines) ==
    IF h = "done" THEN ArrayResult(Append(lines, <<"Done">>))
    ELSE IF h = "dup" THEN ArrayResult(lines \o lines)
    ELSE OtherResult

\* a variant of applyHeaderTransforms that hands every hook the tokens of the line
RECURSIVE applyHeaderTransforms_FromInput(_, _)
applyHeaderTransforms_FromInput(cmds, hooks) ==
    IF hooks = <<>> THEN cmds
    ELSE LET next == HeaderHook(hooks[Len(hooks)], cmds)
         IN  IF next.type = "array" THEN next.items
             ELSE applyHeaderTransforms_FromInput(cmds, SubSeq(hooks, 1, Len(hooks) - 1))

RECURSIVE applyHeaderTransforms(_, _)
applyHeaderTransforms(cmds, hooks) ==
    IF hooks = <<>> THEN cmds
    ELSE LET next == HeaderHook(Head(hooks), cmds)
         IN  applyHeaderTransforms(IF next.type = "array" THEN next.items ELSE cmds,
                                   Tail(hooks))

\* one hook over the whole bucket: the inner loop of applyPreExpandTransforms
RECURSIVE PreBucket(_, _)
PreBucket(h, bucket) ==
    IF bucket = <<>> THEN <<>>
    ELSE LET res == PreHook(h, Head(bucket))
         IN  (IF res.type = "array" /\ res.items # <<>> THEN res.items
              ELSE IF res.type = "string" THEN res.items
              ELSE <<Head(bucket)>>) \o PreBucket(h, Tail(bucket))

RECURSIVE PreFold(_, _)
PreFold(bucket, hooks) ==
    IF hooks = <<>> THEN bucket ELSE PreFold(PreBucket(Head(hooks), bucket), Tail(hooks))

applyPreExpandTransforms(cmd, hooks) == PreFold(<<cmd>>, hooks)

RECURSIVE PostBucket(_, _, _)
PostBucket(h, bucket, lastLineBase) ==
    IF bucket = <<>> THEN <<>>
    ELSE LET res == PostHook(h, Head(bucket), lastLineBase)
         IN  (IF res.type = "array" /\ res.items # <<>> THEN res.items
              ELSE IF res.type = "string" THEN res.items
              ELSE <<Head(bucket)>>) \o PostBucket(h, Tail(bucket), lastLineBase)

RECURSIVE PostFold(_, _, _)
PostFold(bucket, hooks, lastLineBase) ==
    IF hooks = <<>> THEN bucket
    ELSE PostFold(PostBucket(Head(hooks), bucket, lastLineBase), Tail(hooks), lastLineBase)

applyPostExpandTransforms(line, hooks, lastLineBase) == PostFold(<<line>>, hooks, lastLineBase)

RECURSIVE applyFinalizeTransforms(_, _)
applyFinalizeTransforms(lines, hooks) ==
    IF hooks = <<>> THEN lines
    ELSE LET next == FinalizeHook(Head(hooks), lines)
         IN  applyFinalizeTransforms(IF next.type = "array" THEN next.items ELSE lines,
                                     Tail(hooks))

(***************************************************************************)
(* index.js: the emitter                                                   *)
(***************************************************************************)

\* a variant that pushes a line only when it has a command word
RECURSIVE EmitExpanded_SkipBlank(_, _)
EmitExpanded_SkipBlank(em, ls) ==
    IF ls = <<>> THEN em
    ELSE LET base == baseCommandName(Head(ls))
         IN  EmitExpanded_SkipBlank(
                 IF base # <<>>
                 THEN [output |-> Append(em.output, Head(ls)), lastEmittedBase |-> base]
                 ELSE em,
                 Tail(ls))

\* a variant in which a line without a command word clears the value
RECURSIVE EmitExpanded_BlankResets(_, _)
EmitExpanded_BlankResets(em, ls) ==
    IF ls = <<>> THEN em
    ELSE EmitExpanded_BlankResets([output |-> Append(em.output, Head(ls)),
                                   lastEmittedBase |-> baseCommandName(Head(ls))],
                                  Tail(ls))

\* the inner loop of emitWithPostTransforms: em is [output, lastEmittedBase]
RECURSIVE EmitExpanded(_, _)
EmitExpanded(em, ls) ==
    IF ls = <<>> THEN em
    ELSE LET base == baseCommandName(Head(ls))
         IN  EmitExpanded([output |-> Append(em.output, Head(ls)),
                           lastEmittedBase |->
                               IF base # <<>> THEN base ELSE em.lastEmittedBase],
                          Tail(ls))

\* emitWithPostTransforms(lines, ctx, output, state)
RECURSIVE emitWithPostTransforms(_, _, _)
emitWithPostTransforms(em, list, hooks) ==
    IF list = <<>> THEN em
    ELSE emitWithPostTransforms(
            EmitExpanded(em, applyPostExpandTransforms(Head(list), hooks, em.lastEmittedBase)),
            Tail(list), hooks)

(***************************************************************************)
(* Bounds of the model and constants of the program                        *)
(***************************************************************************)

\* the longest document body explored
MaxBody == 3

\* the largest maxExpansionSteps / maxExpansionDepth option explored
MaxStepsOpt == 5

MaxDepthOpt == 3

\* the number of nested expander calls the host call stack holds
MaxFrames == 14

\* the longest text of a quoting document
MaxText == 3

DEFAULT_MAX_EXPANSION_STEPS == 10000

DEFAULT_MAX_EXPANSION_DEPTH == 32

(***************************************************************************)
(* The documents, registrations and options explored                       *)
(***************************************************************************)

Pair(w, fn) == [name |-> Name(w), fn |-> fn]

RegMacros(pairs, requireUse) ==
    [op |-> "macros", pairs |-> pairs, requireUse |-> requireUse, phase |-> "", hook |-> ""]

RegTransform(phase, hook) ==
    [op |-> "transform", pairs |-> <<>>, requireUse |-> FALSE, phase |-> phase, hook |-> hook]

\* a variant in which every engine works on the stores of the first one
EngineStore_Shared(engine) == "first"

\* createEngine: const macroRegistry = new Map(); const pipeline =
\* createTransformPipeline(); the stores an engine's methods close over
EngineStore(engine) == engine

\* a chain M1 -> M2 -> ... -> Mn -> done of macros that ignore their input
ChainNames == <<"M1", "M2", "M3", "M4", "M5", "M6">>

ChainLen == MaxDepthOpt + 1

ChainPairs ==
    [k \in 1..ChainLen |->
        Pair(ChainNames[k],
             ConstFn(<<IF k < ChainLen THEN Name(ChainNames[k + 1]) ELSE Name("done")>>))]

\* the cycles of the tests: A -> B -> A and T1 -> T2 -> T3 -> T1
CyclePairs ==
    <<Pair("A", ConstFn(<<Name("B")>>)), Pair("B", ConstFn(<<Name("A")>>)),
      Pair("T1", ConstFn(<<Name("T2")>>)), Pair("T2", ConstFn(<<Name("T3")>>)),
      Pair("T3", ConstFn(<<Name("T1")>>)), Pair("Self", ConstFn(<<Name("Self")>>))>>

Directive(tok) == <<">", " ">> \o tok

\* engine.processText(doc)
RunText(doc) == [op |-> "processText", doc |-> doc]

\* what a second engine is asked to do while the first one is being set up
OtherCalls ==
    <<RegMacros(<<Pair("Type", ConstFn(<< <<"Enter">> >>)),
                  Pair("Double", ConstFn(<< <<"Enter">> >>)),
                  Pair("M1", ConstFn(<< <<"Enter">> >>))>>, FALSE),
      RegTransform("postExpand", "testPost"),
      RegTransform("finalize", "done"),
      RunText(<< <<"Greet", " ", "=", " ", "Enter">>, <<>>, Directive(<<"Greet">>) >>)>>

BasicScenario ==
    [pending |-> <<>>,
     headers |-> {<<>>},
     pool |-> {Directive(<<"Type", " ", "$1", ",", " ", "Enter">>),
               Directive(<<"Type">>),
               Directive(<<"Type", " ", "$2", ",", " ", "Type", " ", "$2">>),
               Directive(<<"Type", " ", "$*">>),
               Directive(<<"Type", " ", "$1", ",", " ", "Type", " ", "$*">>),
               <<"hello">>, <<" ">>},
     steps |-> {DEFAULT_MAX_EXPANSION_STEPS},
     depths |-> {DEFAULT_MAX_EXPANSION_DEPTH},
     docs |-> {},
     others |-> {<<>>},
     warns |-> {TRUE}]

AliasScenario ==
    [pending |-> <<>>,
     headers |-> {<< <<"Greet", " ", "=", " ", "Type", " ", "$1", ",", " ", "Enter">>,
                     <<"Alias", " ", "=", " ", "Type", " ", "$2">>,
                     <<"Block", " ", "=", " ", "Type", " ", "$*">>,
                     <<>> >>},
     pool |-> {Directive(<<"Greet", " ", "$1">>),
               Directive(<<"Alias", " ", "$1">>),
               Directive(<<"Alias">>),
               Directive(<<"Block", " ", "$1">>),
               Directive(<<"Block">>),
               <<"hi">>, <<" ">>},
     steps |-> {DEFAULT_MAX_EXPANSION_STEPS},
     depths |-> {DEFAULT_MAX_EXPANSION_DEPTH},
     docs |-> {},
     others |-> {<<>>},
     warns |-> {TRUE}]

GuardScenario ==
    [pending |-> <<RegMacros(CyclePairs \o ChainPairs, FALSE)>>,
     headers |-> {<<>>},
     pool |-> {Directive(<<"A">>), Directive(<<"T1">>), Directive(<<"M1">>),
               Directive(<<"M2">>), Directive(<<"Self">>), <<"x">>},
     steps |-> 1..MaxStepsOpt \cup {DEFAULT_MAX_EXPANSION_STEPS},
     depths |-> 1..MaxDepthOpt,
     docs |-> {},
     others |-> {<<>>},
     warns |-> {TRUE}]

GatedScenario ==
    [pending |-> <<RegMacros(<<Pair("Double",
                        ConstFn(<< <<"Type", " ", "$1">>, <<"Type", " ", "$1">> >>)),
                      Pair("Bad", NonArrayFn)>>, TRUE)>>,
     headers |-> {<<>>, << <<"Use", " ", "Double", " ", "Bad">>, <<>> >>},
     pool |-> {Directive(<<"Double">>), Directive(<<"Double", " ", "$1">>),
               Directive(<<"Bad", " ", "$1">>), <<"foo">>, <<"Double">>},
     steps |-> {DEFAULT_MAX_EXPANSION_STEPS},
     depths |-> {DEFAULT_MAX_EXPANSION_DEPTH},
     docs |-> {},
     others |-> {<<>>, OtherCalls},
     warns |-> {TRUE}]

EachLineScenario ==
    [pending |-> <<RegMacros(<<Pair("EachLine", EachLineFn)>>, TRUE),
                   RegMacros(<<Pair("Map", EachLineFn)>>, FALSE)>>,
     headers |-> {<< <<"Use", " ", "EachLine">>, <<>> >>},
     pool |-> {Directive(<<"EachLine", " ", "Type", " ", "$1">>),
               Directive(<<"Map", " ", "Type", " ", "$1">>),
               Directive(<<"Type", " ", "x", ",", " ", "EachLine", " ", "Enter">>),
               <<"a">>, <<"b">>, <<>>},
     steps |-> {DEFAULT_MAX_EXPANSION_STEPS},
     depths |-> {DEFAULT_MAX_EXPANSION_DEPTH},
     docs |-> {},
     others |-> {<<>>},
     warns |-> {TRUE}]

TransformScenario ==
    [pending |-> <<RegTransform("preExpandToken", "testPre"),
                   RegTransform("postExpand", "testPost"),
                   RegTransform("finalize", "done")>>,
     headers |-> {<<>>},
     pool |-> {Directive(<<"Multi", " ", "$1", ",", " ", "Enter">>),
               Directive(<<"Keep", " ", "$1", ",", " ", "Blank", " ", "$1">>),
               <<"hi">>, <<"Enter">>, <<"Type", " ", BQ, "hi", BQ>>},
     steps |-> {DEFAULT_MAX_EXPANSION_STEPS},
     depths |-> {DEFAULT_MAX_EXPANSION_DEPTH},
     docs |-> {},
     others |-> {<<>>, OtherCalls},
     warns |-> {TRUE}]

\* two hooks in each of the phases preExpandToken, postExpand and finalize
OrderScenario ==
    [pending |-> <<RegTransform("preExpandToken", "testPre"),
                   RegTransform("preExpandToken", "twice"),
                   RegTransform("postExpand", "testPost"),
                   RegTransform("postExpand", "slow"),
                   RegTransform("finalize", "done"),
                   RegTransform("finalize", "dup")>>,
     headers |-> {<<>>},
     pool |-> {Directive(<<"Multi", " ", "$1", ",", " ", "Enter">>),
               <<"hi">>, <<"Enter">>},
     steps |-> {DEFAULT_MAX_EXPANSION_STEPS},
     depths |-> {DEFAULT_MAX_EXPANSION_DEPTH},
     docs |-> {},
     others |-> {<<>>},
     warns |-> {TRUE}]

\* the two header hooks of the ordering test
HeaderOrderScenario ==
    [pending |-> <<RegTransform("header", "-H1"), RegTransform("header", "-H2")>>,
     headers |-> {<<>>},
     pool |-> {Directive(<<"Type", " ", "$1">>),
               Directive(<<"Type", " ", "a", ",", " ", "Enter">>),
               <<"hi">>},
     steps |-> {DEFAULT_MAX_EXPANSION_STEPS},
     depths |-> {DEFAULT_MAX_EXPANSION_DEPTH},
     docs |-> {},
     others |-> {<<>>},
     warns |-> {TRUE}]

\* the collision tests: Foo registered twice, the built-in Type registered again,
\* and headers that declare an alias once, twice, or under a registered name
CollisionScenario ==
    [pending |-> <<RegMacros(<<Pair("Foo", ConstFn(<< <<"A">> >>))>>, FALSE),
                   RegMacros(<<Pair("Foo", ConstFn(<< <<"B">> >>)),
                               Pair("Type", ConstFn(<< <<"Enter">> >>))>>, TRUE)>>,
     headers |-> {<<>>,
                  << <<"Foo", " ", "=", " ", "Enter">>, <<>> >>,
                  << <<"Greet", " ", "=", " ", "Enter">>, <<>> >>,
                  << <<"Greet", " ", "=", " ", "Type", " ", "a">>,
                     <<"Greet", " ", "=", " ", "Type", " ", "b">>, <<>> >>},
     pool |-> {Directive(<<"Foo">>), Directive(<<"Greet">>), Directive(<<"Type", " ", "x">>)},
     steps |-> {DEFAULT_MAX_EXPANSION_STEPS},
     depths |-> {DEFAULT_MAX_EXPANSION_DEPTH},
     docs |-> {},
     others |-> {<<>>},
     warns |-> {TRUE, FALSE}]

\* argument lines that themselves hold the characters of a placeholder
VerbatimScenario ==
    [pending |-> <<>>,
     headers |-> {<< <<"Say", " ", "=", " ", "Echo", " ", "$1">>, <<>> >>},
     pool |-> {Directive(<<"Say", " ", "$1">>),
               Directive(<<"Echo", " ", "$1", ",", " ", "Echo", " ", "$*">>),
               <<"echo", " ", "$2">>, <<"$1">>, <<"x">>},
     steps |-> {DEFAULT_MAX_EXPANSION_STEPS},
     depths |-> {DEFAULT_MAX_EXPANSION_DEPTH},
     docs |-> {<<Directive(<<"Echo", " ", "$1", ",", " ", "Say", " ", "foo">>), <<"x">>>>},
     others |-> {<<>>},
     warns |-> {TRUE}]

\* hooks that answer a token or a line with an empty array
DropScenario ==
    [pending |-> <<RegTransform("preExpandToken", "drop"),
                   RegTransform("postExpand", "mute")>>,
     headers |-> {<<>>},
     pool |-> {Directive(<<"Skip", " ", "$1", ",", " ", "Type", " ", "$1">>),
               Directive(<<"Enter">>), <<"Enter">>, <<"hi">>},
     steps |-> {DEFAULT_MAX_EXPANSION_STEPS},
     depths |-> {DEFAULT_MAX_EXPANSION_DEPTH},
     docs |-> {},
     others |-> {<<>>},
     warns |-> {TRUE}]

\* a macro that writes into its argument array, next to a sibling token
ClobberScenario ==
    [pending |-> <<RegMacros(<<Pair("Zap", ClobberFn)>>, FALSE)>>,
     headers |-> {<<>>},
     pool |-> {Directive(<<"Zap", ",", " ", "Type", " ", "$1">>),
               Directive(<<"Type", " ", "$1", ",", " ", "Zap", " ", "foo">>),
               <<"x">>},
     steps |-> {DEFAULT_MAX_EXPANSION_STEPS},
     depths |-> {DEFAULT_MAX_EXPANSION_DEPTH},
     docs |-> {},
     others |-> {<<>>},
     warns |-> {TRUE}]

\* a greedy macro and a per-line macro that need a Use line, in documents
\* without one
InertScenario ==
    [pending |-> <<RegMacros(<<Pair("EachLine", EachLineFn),
                               Pair("Block", [ConstFn(<< <<"Enter">> >>)
                                                 EXCEPT !.hasStar = TRUE])>>, TRUE)>>,
     headers |-> {<<>>},
     pool |-> {Directive(<<"Block">>),
               Directive(<<"EachLine", " ", "Type", " ", "$1">>),
               <<"a">>, <<>>},
     steps |-> {DEFAULT_MAX_EXPANSION_STEPS},
     depths |-> {DEFAULT_MAX_EXPANSION_DEPTH},
     docs |-> {},
     others |-> {<<>>},
     warns |-> {TRUE}]

\* two documents in a row on one engine: the first may declare an alias and
\* activate Loud, the second has no header
SecondDocument == <<Directive(<<"Greet">>), Directive(<<"Loud">>)>>

SequenceScenario ==
    [pending |-> <<RegMacros(<<Pair("Loud", ConstFn(<< <<"Enter">> >>))>>, TRUE)>>,
     headers |-> {<<>>, << <<"Use", " ", "Loud">>,
                           <<"Greet", " ", "=", " ", "Type", " ", "hi">>, <<>> >>},
     pool |-> {Directive(<<"Greet">>), Directive(<<"Loud">>), <<"x">>},
     steps |-> {DEFAULT_MAX_EXPANSION_STEPS},
     depths |-> {DEFAULT_MAX_EXPANSION_DEPTH},
     docs |-> {},
     others |-> {<<>>},
     warns |-> {TRUE}]

\* the documents handed to the engine after the first one
LaterDocuments(sc) == IF sc = SequenceScenario THEN {<<>>, <<SecondDocument>>} ELSE {<<>>}

\* a postExpand hook that writes the lastLineBase it is given behind the line
TagScenario ==
    [pending |-> <<RegTransform("postExpand", "after")>>,
     headers |-> {<<>>},
     pool |-> {Directive(<<"Type", " ", "$1", ",", " ", "Enter">>),
               <<"Sleep", " ", "1s">>, <<>>, <<" ">>},
     steps |-> {DEFAULT_MAX_EXPANSION_STEPS},
     depths |-> {DEFAULT_MAX_EXPANSION_DEPTH},
     docs |-> {},
     others |-> {<<>>},
     warns |-> {TRUE}]

\* a macro whose result names another macro twice
SiblingScenario ==
    [pending |-> <<RegMacros(<<Pair("Twice", ConstFn(<<Name("Once"), Name("Once")>>)),
                               Pair("Once", ConstFn(<< <<"Enter">> >>))>>, FALSE)>>,
     headers |-> {<<>>},
     pool |-> {Directive(<<"Twice">>), Directive(<<"Once">>),
               Directive(<<"Once", ",", " ", "Twice">>)},
     steps |-> {DEFAULT_MAX_EXPANSION_STEPS},
     depths |-> {DEFAULT_MAX_EXPANSION_DEPTH},
     docs |-> {},
     others |-> {<<>>},
     warns |-> {TRUE}]

\* headers that open with a declaration that declares nothing
GreetAlias == <<"Greet", " ", "=", " ", "Type", " ", "hi">>

EmptyDeclScenario ==
    [pending |-> <<>>,
     headers |-> {<< <<"Use">>, GreetAlias, <<>> >>,
                  << <<"Foo", " ", "=", " ">>, GreetAlias, <<>> >>,
                  << <<"Foo", " ", "=", ",">>, GreetAlias, <<>> >>,
                  << <<"Foo", " ", "=">>, GreetAlias, <<>> >>},
     pool |-> {Directive(<<"Greet">>), Directive(<<"Foo">>), <<"x">>},
     steps |-> {DEFAULT_MAX_EXPANSION_STEPS},
     depths |-> {DEFAULT_MAX_EXPANSION_DEPTH},
     docs |-> {},
     others |-> {<<>>},
     warns |-> {TRUE}]

\* the layout of the language reference, and the same without the blank
\* line, read with header validation
LayoutScenario ==
    [pending |-> <<>>,
     headers |-> {<<GreetAlias, <<>> >>, <<GreetAlias>>},
     pool |-> {Directive(<<"Greet">>), <<"x">>},
     steps |-> {DEFAULT_MAX_EXPANSION_STEPS},
     depths |-> {DEFAULT_MAX_EXPANSION_DEPTH},
     docs |-> {},
     others |-> {<<>>},
     warns |-> {TRUE}]

\* options.headerValidation of createEngine
ValidationModes(sc) == IF sc = LayoutScenario THEN {"warn", "error"} ELSE {"off"}

\* every text of 1..n characters over an alphabet
Texts(alphabet, n) == UNION {[1..k -> alphabet] : k \in 1..n}

\* the characters of the lines the quoting documents type
QuoteAlphabet == {BQ, BS, DQ, SQ, "a", " "}

\* `> Type $1` and `> Type`, each followed by one line of text
QuoteScenario ==
    [pending |-> <<>>,
     headers |-> {<<>>},
     pool |-> {},
     steps |-> {DEFAULT_MAX_EXPANSION_STEPS},
     depths |-> {DEFAULT_MAX_EXPANSION_DEPTH},
     docs |-> {<<d, t>> : d \in {Directive(<<"Type", " ", "$1">>), Directive(<<"Type">>)},
                          t \in Texts(QuoteAlphabet, MaxText)},
     others |-> {<<>>},
     warns |-> {TRUE}]

Scenarios == {BasicScenario, AliasScenario, GuardScenario, GatedScenario,
              EachLineScenario, TransformScenario, QuoteScenario, OrderScenario,
              HeaderOrderScenario, CollisionScenario, VerbatimScenario,
              DropScenario, ClobberScenario, InertScenario, SequenceScenario,
              TagScenario, SiblingScenario, EmptyDeclScenario, LayoutScenario}

\* every body of at most MaxBody lines over a pool of lines
Bodies(pool) == UNION {[1..n -> pool] : n \in 0..MaxBody}

(***************************************************************************)
(* The state of one engine and of the processText call in progress         *)
(***************************************************************************)

VARIABLES
    input,          \* the lines of the document handed to processText
    options,        \* the options createEngine was called with
    pending,        \* the registerMacros / registerTransform calls still to come
    macroRegistry,  \* name -> [fn, requireUse]
    transforms,     \* the four hook lists of the pipeline
    pc,             \* "ready", "body", "expand", "done" or "failed"
    useSet,         \* the names of the document's Use lines
    bodyLines,      \* the lines after the header
    bodyStartIndex, \* the 0-based index of the first body line in the input
    cursor,         \* i of processBodyLines (0-based)
    output,         \* the lines emitted so far
    state,          \* [lastEmittedBase, expansionSteps]
    frames,         \* the calls of the expander in progress, innermost last
    expanded,       \* the lines the expander has produced for the directive
    cur,            \* the directive being expanded
    err,            \* the error processText threw
    result,         \* the lines processText returned (before the final join)
    warnings,       \* the console.warn calls
    dirLog,         \* per directive: what the binder decided and consumed
    calls,          \* the macro functions called, in order
    attempts,       \* the number of calls of expandTokenRecursive
    outLog,         \* per finished directive: the lines its expansion returned
    otherRegistry,  \* the macro registry of a second engine
    otherTransforms,\* the hook lists of the second engine
    otherPending,   \* the calls on the second engine still to come
    later,          \* the documents the caller hands to processText after this one
    earlier         \* the processText calls this engine has finished

vars == <<input, options, pending, macroRegistry, transforms, pc, useSet, bodyLines,
          bodyStartIndex, cursor, output, state, frames, expanded, cur, err, result,
          warnings, dirLog, calls, attempts, outLog, otherRegistry, otherTransforms,
          otherPending, later, earlier>>

NoErr == [kind |-> "none", lineNo |-> None, chain |-> <<>>]

NoCur == [lineNo |-> 0, index |-> 0, newIndex |-> 0, tokens |-> <<>>, args |-> EmptyArgs,
          effectiveMaxIdx |-> 0, hasStar |-> FALSE, stepsAtStart |-> 0]

ListFrame(tokens, payload, args, stack, blockBase, eachLine) ==
    [kind |-> "list", tokens |-> tokens, idx |-> 1, payload |-> payload, args |-> args,
     stack |-> stack, blockBase |-> blockBase, had |-> FALSE, eachLine |-> eachLine,
     lines |-> <<>>]

PreFrame(preTokens, payload, args, stack, had, eachLine) ==
    [kind |-> "pre", tokens |-> preTokens, idx |-> 1, payload |-> payload, args |-> args,
     stack |-> stack, blockBase |-> <<>>, had |-> had, eachLine |-> eachLine,
     lines |-> <<>>]

EachFrame(templateTokens, lines, args, stack, blockBase) ==
    [kind |-> "each", tokens |-> templateTokens, idx |-> 1, payload |-> <<>>, args |-> args,
     stack |-> stack, blockBase |-> blockBase, had |-> FALSE, eachLine |-> TRUE,
     lines |-> lines]

\* what the loop of a frame runs over
Items(f) == IF f.kind = "each" THEN f.lines ELSE f.tokens

Top == frames[Len(frames)]

\* the frames with the innermost one replaced
ReplaceTop(f) == [frames EXCEPT ![Len(frames)] = f]

Advance == ReplaceTop([Top EXCEPT !.idx = @ + 1])

MAX_EXPANSION_STEPS == options.maxExpansionSteps

MAX_EXPANSION_DEPTH == options.maxExpansionDepth

Init ==
    \E sc \in Scenarios :
      \E hdr \in sc.headers, body \in Bodies(sc.pool) \cup sc.docs,
         s \in sc.steps, d \in sc.depths, w \in sc.warns, v \in ValidationModes(sc) :
        /\ input = hdr \o body
        /\ options = [maxExpansionSteps |-> s, maxExpansionDepth |-> d,
                      headerValidation |-> v, warnOnMacroCollision |-> w]
        /\ pending = sc.pending
        /\ macroRegistry = BuiltinRegistry
        /\ transforms = EmptyPipeline
        /\ pc = "ready"
        /\ useSet = {}
        /\ bodyLines = <<>>
        /\ bodyStartIndex = 0
        /\ cursor = 0
        /\ output = <<>>
        /\ state = [lastEmittedBase |-> <<>>, expansionSteps |-> 0]
        /\ frames = <<>>
        /\ expanded = <<>>
        /\ cur = NoCur
        /\ err = NoErr
        /\ result = <<>>
        /\ warnings = <<>>
        /\ dirLog = <<>>
        /\ calls = <<>>
        /\ attempts = 0
        /\ outLog = <<>>
        /\ otherRegistry = BuiltinRegistry
        /\ otherTransforms = EmptyPipeline
        /\ otherPending \in sc.others
        /\ later \in LaterDocuments(sc)
        /\ earlier = <<>>

\* engine.registerMacros(macros, { requireUse })
RegisterMacros ==
    /\ pc = "ready"
    /\ pending # <<>>
    /\ Head(pending).op = "macros"
    /\ macroRegistry' = registerMacros(macroRegistry, Head(pending).pairs,
                                       Head(pending).requireUse)
    /\ warnings' = warnings \o CollisionWarnings(macroRegistry, Head(pending).pairs,
                                                 options.warnOnMacroCollision)
    /\ pending' = Tail(pending)
    /\ UNCHANGED <<input, options, transforms, pc, useSet, bodyLines, bodyStartIndex,
                   cursor, output, state, frames, expanded, cur, err, result, dirLog,
                   calls, attempts, outLog,
                   otherRegistry, otherTransforms, otherPending, later, earlier>>

\* engine.registerTransform(phase, fn)
RegisterTransform ==
    /\ pc = "ready"
    /\ pending # <<>>
    /\ Head(pending).op = "transform"
    /\ transforms' = registerTransform(transforms, Head(pending).phase, Head(pending).hook)
    /\ pending' = Tail(pending)
    /\ UNCHANGED <<input, options, macroRegistry, pc, useSet, bodyLines, bodyStartIndex,
                   cursor, output, state, frames, expanded, cur, err, result, warnings,
                   dirLog, calls, attempts, outLog,
                   otherRegistry, otherTransforms, otherPending, later, earlier>>

\* registerMacros called on the second engine
OtherRegisterMacros ==
    /\ pc = "ready"
    /\ otherPending # <<>>
    /\ Head(otherPending).op = "macros"
    /\ IF EngineStore("second") = "second"
       THEN /\ otherRegistry' = registerMacros(otherRegistry, Head(otherPending).pairs,
                                               Head(otherPending).requireUse)
            /\ UNCHANGED macroRegistry
       ELSE /\ macroRegistry' = registerMacros(macroRegistry, Head(otherPending).pairs,
                                               Head(otherPending).requireUse)
            /\ UNCHANGED otherRegistry
    /\ otherPending' = Tail(otherPending)
    /\ UNCHANGED <<input, options, pending, transforms, pc, useSet, bodyLines,
                   bodyStartIndex, cursor, output, state, frames, expanded, cur, err,
                   result, warnings, dirLog, calls, attempts, outLog, otherTransforms,
                   later, earlier>>

\* registerTransform called on the second engine
OtherRegisterTransform ==
    /\ pc = "ready"
    /\ otherPending # <<>>
    /\ Head(otherPending).op = "transform"
    /\ IF EngineStore("second") = "second"
       THEN /\ otherTransforms' = registerTransform(otherTransforms,
                                       Head(otherPending).phase, Head(otherPending).hook)
            /\ UNCHANGED transforms
       ELSE /\ transforms' = registerTransform(transforms,
                                       Head(otherPending).phase, Head(otherPending).hook)
            /\ UNCHANGED otherTransforms
    /\ otherPending' = Tail(otherPending)
    /\ UNCHANGED <<input, options, pending, macroRegistry, pc, useSet, bodyLines,
                   bodyStartIndex, cursor, output, state, frames, expanded, cur, err,
                   result, warnings, dirLog, calls, attempts, outLog, otherRegistry,
                   later, earlier>>

\* processText called on the second engine: the aliases of the header go to the
\* registry of that engine; the guard state is local to the call
OtherProcessText ==
    /\ pc = "ready"
    /\ otherPending # <<>>
    /\ Head(otherPending).op = "processText"
    /\ LET h == parseFileHeader(Head(otherPending).doc, "off")
       IN  IF EngineStore("second") = "second"
           THEN /\ otherRegistry' = registerMacros(otherRegistry, h.macrosFromHeader, FALSE)
                /\ UNCHANGED macroRegistry
           ELSE /\ macroRegistry' = registerMacros(macroRegistry, h.macrosFromHeader, FALSE)
                /\ UNCHANGED otherRegistry
    /\ otherPending' = Tail(otherPending)
    /\ UNCHANGED <<input, options, pending, transforms, pc, useSet, bodyLines,
                   bodyStartIndex, cursor, output, state, frames, expanded, cur, err,
                   result, warnings, dirLog, calls, attempts, outLog, otherTransforms,
                   later, earlier>>

\* processText up to the call of processBodyLines
ProcessText ==
    /\ pc = "ready"
    /\ pending = <<>>
    /\ LET h == parseFileHeader(input, options.headerValidation)
       IN  IF h.threw
           THEN /\ pc' = "failed"
                /\ err' = [kind |-> "header", lineNo |-> Some(h.issues[Len(h.issues)].lineNo),
                           chain |-> <<>>]
                /\ UNCHANGED <<macroRegistry, useSet, bodyLines, bodyStartIndex, warnings>>
           ELSE /\ pc' = "body"
                /\ err' = NoErr
                /\ useSet' = {h.useNames[k] : k \in 1..Len(h.useNames)}
                /\ macroRegistry' = registerMacros(macroRegistry, h.macrosFromHeader, FALSE)
                /\ warnings' = warnings
                       \o [k \in 1..Len(h.issues) |-> h.issues[k].kind]
                       \o CollisionWarnings(macroRegistry, h.macrosFromHeader,
                                            options.warnOnMacroCollision)
                /\ bodyLines' = SubSeq(input, h.bodyStart + 1, Len(input))
                /\ bodyStartIndex' = h.bodyStart
    /\ cursor' = 0
    /\ output' = <<>>
    /\ state' = [lastEmittedBase |-> <<>>, expansionSteps |-> 0]
    /\ UNCHANGED <<input, options, pending, transforms, frames, expanded, cur, result,
                   dirLog, calls, attempts, outLog,
                   otherRegistry, otherTransforms, otherPending, later, earlier>>

\* processBodyLines: a line that is not a directive is emitted
PassThrough ==
    /\ pc = "body"
    /\ cursor < Len(bodyLines)
    /\ ~isDirective(bodyLines[cursor + 1])
    /\ LET em == emitWithPostTransforms(
                    [output |-> output, lastEmittedBase |-> state.lastEmittedBase],
                    <<bodyLines[cursor + 1]>>, transforms.postExpand)
       IN  /\ output' = em.output
           /\ state' = [state EXCEPT !.lastEmittedBase = em.lastEmittedBase]
    /\ cursor' = cursor + 1
    /\ UNCHANGED <<input, options, pending, macroRegistry, transforms, pc, useSet,
                   bodyLines, bodyStartIndex, frames, expanded, cur, err, result,
                   warnings, dirLog, calls, attempts, outLog,
                   otherRegistry, otherTransforms, otherPending, later, earlier>>

\* a variant that starts every directive with a counter of zero
DirectiveState_Fresh(st) == [st EXCEPT !.expansionSteps = 0]

\* processBodyLines hands the state object of the processText call to every
\* processDirectiveLine
DirectiveState(st) == st

\* processDirectiveLine up to the call of expandTokenList
StartDirective ==
    /\ pc = "body"
    /\ cursor < Len(bodyLines)
    /\ isDirective(bodyLines[cursor + 1])
    /\ LET line == bodyLines[cursor + 1]
           tokens == applyHeaderTransforms(DirectiveTokens(line), transforms.header)
           an == analyzeArguments(tokens, macroRegistry)
           co == consumeArguments(bodyLines, cursor, an.effectiveMaxIdx, an.hasStar)
           c == [lineNo |-> bodyStartIndex + cursor + 1, index |-> cursor,
                 newIndex |-> co.newIndex, tokens |-> tokens, args |-> co.args,
                 effectiveMaxIdx |-> an.effectiveMaxIdx, hasStar |-> an.hasStar,
                 stepsAtStart |-> state.expansionSteps]
       IN  /\ cur' = c
           /\ dirLog' = Append(dirLog, c)
           /\ frames' = <<ListFrame(tokens, DirectivePayload(co.args), co.args, <<>>, <<>>,
                                    FALSE)>>
    /\ expanded' = <<>>
    /\ state' = DirectiveState(state)
    /\ pc' = "expand"
    /\ UNCHANGED <<input, options, pending, macroRegistry, transforms, useSet, bodyLines,
                   bodyStartIndex, cursor, output, err, result, warnings, calls,
                   attempts, outLog,
                   otherRegistry, otherTransforms, otherPending, later, earlier>>

(***************************************************************************)
(* The recursive expander, one step of one loop at a time.  The lines an   *)
(* inner call returns are appended to its caller's result in call order,   *)
(* so the nested results are kept as the one list `expanded`.              *)
(***************************************************************************)

InLoop(kind) ==
    /\ pc = "expand"
    /\ frames # <<>>
    /\ Len(frames) < MaxFrames
    /\ Top.kind = kind
    /\ Top.idx <= Len(Items(Top))

\* the token the loop of the innermost call is at
CurTok == Top.tokens[Top.idx]

CurTrimmed == Trim(CurTok)

CurBase == baseCommandName(CurTrimmed)

\* a variant without the check of the macro's own name
IsBlocked_Never == FALSE

\* blockBase && base === blockBase
IsBlocked == Top.blockBase # <<>> /\ CurBase = Top.blockBase

IsEachLineCall ==
    IsActive(macroRegistry, useSet, CurBase) /\ macroRegistry[CurBase].fn.eachLine

Fail(kind, lineNo, chain) ==
    /\ pc' = "failed"
    /\ err' = [kind |-> kind, lineNo |-> lineNo, chain |-> chain]

\* expandTokenList / expandTokenRecursive: a token that trims to nothing
SkipBlankToken ==
    /\ InLoop("list") \/ InLoop("pre")
    /\ CurTrimmed = <<>>
    /\ frames' = Advance
    /\ UNCHANGED <<input, options, pending, macroRegistry, transforms, pc, useSet,
                   bodyLines, bodyStartIndex, cursor, output, state, expanded, cur, err,
                   result, warnings, dirLog, calls, attempts, outLog,
                   otherRegistry, otherTransforms, otherPending, later, earlier>>

\* expandTokenList: a token a macro returned under its own name is final
EmitBlocked ==
    /\ InLoop("list")
    /\ CurTrimmed # <<>>
    /\ IsBlocked
    /\ expanded' = Append(expanded, CurTok)
    /\ frames' = Advance
    /\ UNCHANGED <<input, options, pending, macroRegistry, transforms, pc, useSet,
                   bodyLines, bodyStartIndex, cursor, output, state, cur, err, result,
                   warnings, dirLog, calls, attempts, outLog,
                   otherRegistry, otherTransforms, otherPending, later, earlier>>

\* expandTokenList: an active eachLine macro; expandEachLine up to its loop,
\* and the break that ends the loop of the token list
StartEachLine ==
    /\ InLoop("list")
    /\ CurTrimmed # <<>>
    /\ ~IsBlocked
    /\ IsEachLineCall
    /\ LET templateTokens == buildEachLineTemplate(Top.tokens, Top.idx, CurTrimmed)
           text == IF Top.args.star # None THEN Top.args.star[1] ELSE Top.payload
           lines == IF text = <<>> THEN <<>> ELSE SplitLines(text)
       IN  frames' = Append(ReplaceTop([Top EXCEPT !.idx = Len(Top.tokens) + 1]),
                            EachFrame(templateTokens, lines, Top.args, Top.stack,
                                      Top.blockBase))
    /\ UNCHANGED <<input, options, pending, macroRegistry, transforms, pc, useSet,
                   bodyLines, bodyStartIndex, cursor, output, state, expanded, cur, err,
                   result, warnings, dirLog, calls, attempts, outLog,
                   otherRegistry, otherTransforms, otherPending, later, earlier>>

\* a variant that hands the line on as the greedy value only
PerLineArgs_StarOnly(args, line) == [args EXCEPT !.star = Some(line)]

\* perLineArgs = [...args]; perLineArgs["*"] = line; perLineArgs[1] = line
PerLineArgs(args, line) == [SetArg(args, 1, line) EXCEPT !.star = Some(line)]

\* expandEachLine: one line of the greedy argument
EachLineIteration ==
    /\ InLoop("each")
    /\ LET line == Top.lines[Top.idx]
           perLineArgs == PerLineArgs(Top.args, line)
       IN  frames' = IF line = <<>> THEN Advance
                     ELSE Append(Advance,
                                 ListFrame(Top.tokens, line, perLineArgs, Top.stack,
                                           Top.blockBase, TRUE))
    /\ UNCHANGED <<input, options, pending, macroRegistry, transforms, pc, useSet,
                   bodyLines, bodyStartIndex, cursor, output, state, expanded, cur, err,
                   result, warnings, dirLog, calls, attempts, outLog,
                   otherRegistry, otherTransforms, otherPending, later, earlier>>

\* expandTokenRecursive: checkExpansionLimits throws
StepLimitError ==
    /\ InLoop("list")
    /\ CurTrimmed # <<>>
    /\ ~IsBlocked
    /\ ~IsEachLineCall
    /\ checkExpansionLimits(state.expansionSteps, MAX_EXPANSION_STEPS)
    /\ Fail("steps", Some(cur.lineNo), Top.stack)
    /\ attempts' = attempts + 1
    /\ UNCHANGED <<input, options, pending, macroRegistry, transforms, useSet, bodyLines,
                   bodyStartIndex, cursor, output, state, frames, expanded, cur, result,
                   warnings, dirLog, calls, outLog,
                   otherRegistry, otherTransforms, otherPending, later, earlier>>

\* a variant that counts one step for every token the hooks fanned out to
CountStep_PerFanOut(st, preTokens) ==
    [st EXCEPT !.expansionSteps = @ + Len(SelectSeq(preTokens, LAMBDA t : Trim(t) # <<>>))]

\* state.expansionSteps += 1, once per call of expandTokenRecursive
CountStep(st, preTokens) == [st EXCEPT !.expansionSteps = @ + 1]

\* expandTokenRecursive up to its loop over the pre-expanded tokens
ExpandToken ==
    /\ InLoop("list")
    /\ CurTrimmed # <<>>
    /\ ~IsBlocked
    /\ ~IsEachLineCall
    /\ ~checkExpansionLimits(state.expansionSteps, MAX_EXPANSION_STEPS)
    /\ attempts' = attempts + 1
    /\ LET withArgs == substituteArgs(CurTok, Top.args)
           preTokens == applyPreExpandTransforms(withArgs, transforms.preExpandToken)
       IN  /\ state' = CountStep(state, preTokens)
           /\ frames' = Append(Advance,
                               PreFrame(preTokens, Top.payload, Top.args, Top.stack,
                                        HadPlaceholders(CurTok), Top.eachLine))
    /\ UNCHANGED <<input, options, pending, macroRegistry, transforms, pc, useSet,
                   bodyLines, bodyStartIndex, cursor, output, expanded, cur, err, result,
                   warnings, dirLog, calls, outLog,
                   otherRegistry, otherTransforms, otherPending, later, earlier>>

\* expandSingleToken: no entry, or the macro is not active
EmitLiteral ==
    /\ InLoop("pre")
    /\ CurTrimmed # <<>>
    /\ ~IsActive(macroRegistry, useSet, CurBase)
    /\ expanded' = Append(expanded, CurTrimmed)
    /\ frames' = Advance
    /\ UNCHANGED <<input, options, pending, macroRegistry, transforms, pc, useSet,
                   bodyLines, bodyStartIndex, cursor, output, state, cur, err, result,
                   warnings, dirLog, calls, attempts, outLog,
                   otherRegistry, otherTransforms, otherPending, later, earlier>>

\* expandSingleToken: validateRecursion throws
RecursionGuardError ==
    /\ InLoop("pre")
    /\ CurTrimmed # <<>>
    /\ IsActive(macroRegistry, useSet, CurBase)
    /\ LET v == validateRecursion(CurBase, Top.stack, MAX_EXPANSION_DEPTH)
       IN  /\ v # "ok"
           /\ IF v = "recursion"
              THEN Fail("recursion", None, Append(Top.stack, CurBase))
              ELSE Fail("depth", Some(cur.lineNo), Top.stack)
    /\ UNCHANGED <<input, options, pending, macroRegistry, transforms, useSet, bodyLines,
                   bodyStartIndex, cursor, output, state, frames, expanded, cur, result,
                   warnings, dirLog, calls, attempts, outLog,
                   otherRegistry, otherTransforms, otherPending, later, earlier>>

\* expandSingleToken: the macro function is called; expandMacroResult
\* a variant that hands the caller's stack on as it is
CalleeStack_NoPush(stack, base) == stack

\* expandMacroResult: [...stack, base], a new array for the macro's result
CalleeStack(stack, base) == Append(stack, base)

\* effectiveArgs once entry.fn has returned: the array the function was
\* given, with whatever the function wrote into it
ArgsAfterCall(fn, effectiveArgs) ==
    IF fn.kind = "clobber" THEN SetArg(effectiveArgs, 1, <<"zap">>) ELSE effectiveArgs

\* a variant in which the function is handed the caller's own array: what
\* it writes shows in the token loop and in the list that loop belongs to
CallerFrames_Aliased(fn, fs) ==
    [i \in 1..Len(fs) |->
        IF i >= Len(fs) - 1 THEN [fs[i] EXCEPT !.args = ArgsAfterCall(fn, @)] ELSE fs[i]]

\* the frames of the caller once entry.fn has returned: effectiveArgs is a
\* copy ([...args]), the arrays of the caller are not touched
CallerFrames(fn, fs) == fs

InvokeMacro ==
    /\ InLoop("pre")
    /\ CurTrimmed # <<>>
    /\ IsActive(macroRegistry, useSet, CurBase)
    /\ validateRecursion(CurBase, Top.stack, MAX_EXPANSION_DEPTH) = "ok"
    /\ LET pa == prepareCallArgs(CurTrimmed, Top.payload, Top.args, Top.had)
           res == CallMacro(macroRegistry[CurBase].fn, pa.payloadForCall, CurTrimmed,
                            pa.effectiveArgs)
           arr == IF res.isArray THEN res.items ELSE <<>>
       IN  /\ frames' = Append(CallerFrames(macroRegistry[CurBase].fn, Advance),
                               ListFrame(arr, pa.payloadForCall,
                                         ArgsAfterCall(macroRegistry[CurBase].fn,
                                                       pa.effectiveArgs),
                                         CalleeStack(Top.stack, CurBase), CurBase,
                                         Top.eachLine))
           /\ calls' = Append(calls, [name |-> CurBase, payload |-> pa.payloadForCall,
                                      rawCmd |-> CurTrimmed, args |-> pa.effectiveArgs])
    /\ UNCHANGED <<input, options, pending, macroRegistry, transforms, pc, useSet,
                   bodyLines, bodyStartIndex, cursor, output, state, expanded, cur, err,
                   result, warnings, dirLog, attempts, outLog,
                   otherRegistry, otherTransforms, otherPending, later, earlier>>

\* the loop of the innermost call is over: it returns to its caller
Return ==
    /\ pc = "expand"
    /\ frames # <<>>
    /\ Len(frames) < MaxFrames
    /\ Top.idx > Len(Items(Top))
    /\ frames' = SubSeq(frames, 1, Len(frames) - 1)
    /\ UNCHANGED <<input, options, pending, macroRegistry, transforms, pc, useSet,
                   bodyLines, bodyStartIndex, cursor, output, state, expanded, cur, err,
                   result, warnings, dirLog, calls, attempts, outLog,
                   otherRegistry, otherTransforms, otherPending, later, earlier>>

\* the host call stack is exhausted: a RangeError
StackOverflow ==
    /\ pc = "expand"
    /\ Len(frames) >= MaxFrames
    /\ Fail("RangeError", None, <<>>)
    /\ UNCHANGED <<input, options, pending, macroRegistry, transforms, useSet, bodyLines,
                   bodyStartIndex, cursor, output, state, frames, expanded, cur, result,
                   warnings, dirLog, calls, attempts, outLog,
                   otherRegistry, otherTransforms, otherPending, later, earlier>>

\* expandAndEmitTokens: the expanded lines are emitted; processBodyLines
\* a variant that goes on with the line right after the directive
NextIndex_Reread(d) == d.index + 1

\* processBodyLines: i = processDirectiveLine(...); i += 1
NextIndex(d) == d.newIndex + 1

\* goes on after the lines the directive consumed
FinishDirective ==
    /\ pc = "expand"
    /\ frames = <<>>
    /\ LET em == emitWithPostTransforms(
                    [output |-> output, lastEmittedBase |-> state.lastEmittedBase],
                    expanded, transforms.postExpand)
       IN  /\ output' = em.output
           /\ state' = [state EXCEPT !.lastEmittedBase = em.lastEmittedBase]
    /\ cursor' = NextIndex(cur)
    /\ pc' = "body"
    /\ outLog' = Append(outLog, expanded)
    /\ UNCHANGED <<input, options, pending, macroRegistry, transforms, useSet, bodyLines,
                   bodyStartIndex, frames, expanded, cur, err, result, warnings, dirLog,
                   calls, attempts,
                   otherRegistry, otherTransforms, otherPending, later, earlier>>

\* processText returns the finalized output
Finish ==
    /\ pc = "body"
    /\ cursor >= Len(bodyLines)
    /\ result' = applyFinalizeTransforms(output, transforms.finalize)
    /\ pc' = "done"
    /\ UNCHANGED <<input, options, pending, macroRegistry, transforms, useSet, bodyLines,
                   bodyStartIndex, cursor, output, state, frames, expanded, cur, err,
                   warnings, dirLog, calls, attempts, outLog,
                   otherRegistry, otherTransforms, otherPending, later, earlier>>

\* the caller has the result, or has caught the error, of one processText
\* call and makes the next one on the same engine: what lives in the
\* closure of createEngine stays, the locals of the call are gone
NextDocument ==
    /\ pc \in {"done", "failed"}
    /\ later # <<>>
    /\ input' = Head(later)
    /\ later' = Tail(later)
    /\ earlier' = Append(earlier, [input |-> input, pc |-> pc, result |-> result])
    /\ pc' = "ready"
    /\ useSet' = {}
    /\ bodyLines' = <<>>
    /\ bodyStartIndex' = 0
    /\ cursor' = 0
    /\ output' = <<>>
    /\ state' = [lastEmittedBase |-> <<>>, expansionSteps |-> 0]
    /\ frames' = <<>>
    /\ expanded' = <<>>
    /\ cur' = NoCur
    /\ err' = NoErr
    /\ result' = <<>>
    /\ warnings' = <<>>
    /\ dirLog' = <<>>
    /\ calls' = <<>>
    /\ attempts' = 0
    /\ outLog' = <<>>
    /\ UNCHANGED <<options, pending, macroRegistry, transforms,
                   otherRegistry, otherTransforms, otherPending>>

Next ==
    \/ RegisterMacros
    \/ RegisterTransform
    \/ OtherRegisterMacros
    \/ OtherRegisterTransform
    \/ OtherProcessText
    \/ ProcessText
    \/ PassThrough
    \/ StartDirective
    \/ SkipBlankToken
    \/ EmitBlocked
    \/ StartEachLine
    \/ EachLineIteration
    \/ StepLimitError
    \/ ExpandToken
    \/ EmitLiteral
    \/ RecursionGuardError
    \/ InvokeMacro
    \/ Return
    \/ StackOverflow
    \/ FinishDirective
    \/ Finish
    \/ NextDocument

Spec == Init /\ [][Next]_vars

(***************************************************************************)
(* Properties of the expansion guards                                      *)
(***************************************************************************)

GuardErrors == {"steps", "recursion", "depth"}

SeqHas(seq, x) == \E k \in 1..Len(seq) : seq[k] = x

\* a macro whose function returns exactly one token
IsLink(reg, n) == HasMacro(reg, n) /\ reg[n].fn.kind = "const" /\ Len(reg[n].fn.body) = 1

\* the names a directive `> n` runs through when every macro returns the
\* next one: it ends with the first name seen twice or the first that is no
\* such macro
RECURSIVE Walk(_, _, _)
Walk(reg, n, seen) ==
    IF ~IsLink(reg, n) \/ SeqHas(seen, n) THEN Append(seen, n)
    ELSE Walk(reg, baseCommandName(reg[n].fn.body[1]), Append(seen, n))

\* the directive started last has run to its end, and it is `> n` for a
\* macro n that returns one token
LinkDirectiveOver ==
    /\ pc \in {"body", "done", "failed"}
    /\ Len(cur.tokens) = 1
    /\ IsLink(macroRegistry, baseCommandName(cur.tokens[1]))
    /\ cur.tokens[1] = baseCommandName(cur.tokens[1])

CurWalk == Walk(macroRegistry, baseCommandName(cur.tokens[1]), <<>>)

\* the walk comes back to the macro the directive names
CurIsCycle == CurWalk[1] = CurWalk[Len(CurWalk)]

\* C1 (as stated): a call of processText that fails in the expander fails
\* with the step-limit, the recursion or the depth error and with nothing
\* else; the expander never runs away.
C1_OnlyGuardErrors ==
    (pc = "failed" /\ err.kind # "header") => err.kind \in GuardErrors

\* C2 (as stated): a directive that invokes a macro of a cycle of k <= D
\* macros fails with the recursion error, whose chain holds every macro of
\* the cycle, and with no other guard error.
C2_Original ==
    (LinkDirectiveOver /\ CurIsCycle /\ Len(CurWalk) - 1 <= MAX_EXPANSION_DEPTH)
        => /\ pc = "failed"
           /\ err.kind = "recursion"
           /\ \A k \in 1..Len(CurWalk) : SeqHas(err.chain, CurWalk[k])

\* C2: a directive that invokes a macro of a cycle of k macros, 2 <= k <= D,
\* fails; with k + 1 token considerations left of the step budget when the
\* directive starts it fails with the recursion error, whose chain is
\* A1 .. Ak A1, and with fewer it fails with the step-limit error.  A macro
\* that returns its own name (k = 1) raises no recursion error: the token
\* is the directive's output.
C2_CycleRaisesRecursion ==
    /\ (LinkDirectiveOver /\ CurIsCycle /\ Len(CurWalk) - 1 >= 2
           /\ Len(CurWalk) - 1 <= MAX_EXPANSION_DEPTH)
          => /\ pc = "failed"
             /\ IF cur.stepsAtStart + Len(CurWalk) <= MAX_EXPANSION_STEPS
                THEN err.kind = "recursion" /\ err.chain = CurWalk
                ELSE err.kind = "steps"
    /\ (LinkDirectiveOver /\ CurIsCycle /\ Len(CurWalk) - 1 = 1)
          => IF cur.stepsAtStart + 1 <= MAX_EXPANSION_STEPS
             THEN pc # "failed" /\ outLog[Len(outLog)] = <<cur.tokens[1]>>
             ELSE pc = "failed" /\ err.kind = "steps"

C2_Witness ==
    /\ pc = "failed"
    /\ err.kind = "recursion"
    /\ err.chain = <<Name("T1"), Name("T2"), Name("T3"), Name("T1")>>
    /\ cur.stepsAtStart > 0

\* C3: no call of the expander ever has more than D macro names on its
\* stack; the depth error is raised exactly by the invocation of a macro,
\* not on the stack, from a stack of D names, and it reports that stack; a
\* directive whose macros nest more than D deep fails with it (the step
\* budget allowing), one whose macros nest D deep or less never does.
C3_DepthLimit ==
    /\ \A i \in 1..Len(frames) : Len(frames[i].stack) <= MAX_EXPANSION_DEPTH
    /\ (pc = "failed" /\ err.kind = "depth")
          => /\ Top.kind = "pre"
             /\ Len(Top.stack) = MAX_EXPANSION_DEPTH
             /\ ~SeqHas(Top.stack, CurBase)
             /\ err.chain = Top.stack
    /\ (LinkDirectiveOver /\ ~CurIsCycle)
          => /\ (/\ Len(CurWalk) - 1 > MAX_EXPANSION_DEPTH
                 /\ cur.stepsAtStart + MAX_EXPANSION_DEPTH + 1 <= MAX_EXPANSION_STEPS)
                   => (pc = "failed" /\ err.kind = "depth")
             /\ Len(CurWalk) - 1 <= MAX_EXPANSION_DEPTH
                   => ~(pc = "failed" /\ err.kind = "depth")
             /\ (/\ Len(CurWalk) - 1 <= MAX_EXPANSION_DEPTH
                 /\ cur.stepsAtStart + Len(CurWalk) <= MAX_EXPANSION_STEPS)
                   => pc # "failed"

C3_Witness ==
    /\ pc = "failed"
    /\ err.kind = "depth"
    /\ Len(err.chain) = MAX_EXPANSION_DEPTH
    /\ MAX_EXPANSION_DEPTH >= 2

\* C4: the step counter never exceeds S; the step-limit error is raised
\* when and only when expandTokenRecursive is entered for the (S+1)-th time
\* in the document, and up to then the counter is the number of entries.
C4_StepLimit ==
    /\ state.expansionSteps <= MAX_EXPANSION_STEPS
    /\ attempts <= MAX_EXPANSION_STEPS + 1
    /\ (pc = "failed" /\ err.kind = "steps") <=> (attempts = MAX_EXPANSION_STEPS + 1)
    /\ attempts <= MAX_EXPANSION_STEPS => state.expansionSteps = attempts

C4_Witness ==
    /\ pc = "failed"
    /\ err.kind = "steps"
    /\ attempts = MAX_EXPANSION_STEPS + 1
    /\ Len(dirLog) >= 2


(***************************************************************************)
(* Properties of the argument binder                                       *)
(***************************************************************************)

\* the highest index the tokens refer to, 0 when they refer to none
DirectMax(tokens) ==
    LET refs == UNION {{PlaceholderIndex(tokens[k][j]) :
                           j \in {i \in 1..Len(tokens[k]) : IsPosPlaceholder(tokens[k][i])}} :
                       k \in 1..Len(tokens)}
    IN  IF refs = {} THEN 0 ELSE CHOOSE m \in refs : \A n \in refs : n <= m

HasStarRef(tokens) ==
    \E k \in 1..Len(tokens) : \E j \in 1..Len(tokens[k]) : tokens[k][j] = "$*"

\* some token names a registered macro that is flagged greedy or per-line
NamesGreedyMacro(tokens) ==
    \E k \in 1..Len(tokens) :
        /\ HasMacro(macroRegistry, baseCommandName(tokens[k]))
        /\ \/ macroRegistry[baseCommandName(tokens[k])].fn.hasStar
           \/ macroRegistry[baseCommandName(tokens[k])].fn.eachLine

HasBareType(tokens) == \E k \in 1..Len(tokens) : tokens[k] = <<"Type">>

\* the body line at a 0-based index, "" past the end of the input
LineAfter(i) == IF i + 1 <= Len(bodyLines) THEN bodyLines[i + 1] ELSE <<>>

\* directive d consumed exactly the n lines after it and bound line k to $k
ConsumedExactly(d, n) ==
    /\ d.newIndex - d.index = n
    /\ Len(d.args.pos) = n
    /\ \A k \in 1..n : d.args.pos[k] = <<LineAfter(d.index + k)>>
    /\ d.args.star = <<>>

\* C5 (as stated): a directive whose tokens refer to highest index N and to
\* no greedy marker consumes exactly the N lines after it, line k bound to
\* $k and "" bound where the input has no line left.
C5_Original ==
    \A i \in 1..Len(dirLog) :
        ~HasStarRef(dirLog[i].tokens)
            => ConsumedExactly(dirLog[i], DirectMax(dirLog[i].tokens))

\* C5: a directive whose tokens refer to no greedy marker and name no macro
\* flagged greedy or per-line, and whose highest referenced index is N,
\* consumes exactly the N lines after it (line k bound to $k, "" where the
\* input has no line left) when N >= 1 or no token is a bare Type; with
\* N = 0 and a bare Type token it consumes one line, bound to $1.
C5_PositionalConsumption ==
    \A i \in 1..Len(dirLog) :
        LET d == dirLog[i]
            n == DirectMax(d.tokens)
        IN  (~HasStarRef(d.tokens) /\ ~NamesGreedyMacro(d.tokens))
                => ConsumedExactly(d, IF n = 0 /\ HasBareType(d.tokens) THEN 1 ELSE n)

\* two tokens refer to $2 and the input ends after one line
C5_Witness ==
    /\ pc = "done"
    /\ \E i \in 1..Len(dirLog) :
          /\ Len(dirLog[i].tokens) = 2
          /\ DirectMax(dirLog[i].tokens) = 2
          /\ dirLog[i].index + 2 = Len(bodyLines)
          /\ dirLog[i].args.pos = << <<LineAfter(dirLog[i].index + 1)>>, << <<>> >> >>
          /\ LineAfter(dirLog[i].index + 1) # <<>>

\* the number of lines without a blank one that start at 0-based index i
RECURSIVE RunLen(_)
RunLen(i) ==
    IF i + 1 <= Len(bodyLines) /\ Trim(bodyLines[i + 1]) # <<>> THEN 1 + RunLen(i + 1) ELSE 0

\* C6: a directive that requires the greedy argument consumes, after its
\* positional lines, the lines up to the first blank line or the end of the
\* input; the greedy value is those lines joined with newlines; the blank
\* line is consumed with them, and processBodyLines goes on after it.
C6_GreedyConsumption ==
    /\ \A i \in 1..Len(dirLog) :
          LET d == dirLog[i]
              s == d.index + d.effectiveMaxIdx
              n == RunLen(s + 1)
          IN  (d.hasStar \/ HasStarRef(d.tokens))
                => /\ d.hasStar
                   /\ d.args.star = <<JoinNl([k \in 1..n |-> bodyLines[s + 1 + k]])>>
                   /\ d.newIndex = IF s + 1 + n < Len(bodyLines) THEN s + 1 + n ELSE s + n
                   /\ \A k \in 1..d.effectiveMaxIdx :
                         d.args.pos[k] = <<LineAfter(d.index + k)>>
    /\ (pc \in {"body", "done"} /\ dirLog # <<>>)
          => cursor > dirLog[Len(dirLog)].newIndex

\* a positional line, a greedy line and the blank line that ends them
C6_Witness ==
    /\ pc = "done"
    /\ \E i \in 1..Len(dirLog) :
          /\ HasStarRef(dirLog[i].tokens)
          /\ dirLog[i].args.star # << <<>> >>
          /\ dirLog[i].newIndex < Len(bodyLines)
          /\ Trim(LineAfter(dirLog[i].newIndex)) = <<>>
          /\ dirLog[i].newIndex > dirLog[i].index + 1

\* the macro a token names is registered and eligible in this document
DeclaredUse ==
    UNION {{SplitWs(input[i])[k] : k \in 2..Len(SplitWs(input[i]))} :
              i \in {j \in 1..bodyStartIndex :
                        SplitWs(input[j]) # <<>> /\ SplitWs(input[j])[1] = <<"Use">>}}

Eligible(base) ==
    /\ HasMacro(macroRegistry, base)
    /\ (macroRegistry[base].requireUse = FALSE \/ base \in DeclaredUse)

\* the highest index the output of the eligible macros the tokens name refers to
IndirectMax(tokens) ==
    LET refs == {DirectMax(macroRegistry[baseCommandName(tokens[k])].fn.body) :
                    k \in {i \in 1..Len(tokens) :
                              /\ Eligible(baseCommandName(tokens[i]))
                              /\ macroRegistry[baseCommandName(tokens[i])].fn.kind
                                    \in {"const", "alias"}}}
    IN  IF refs = {} THEN 0 ELSE CHOOSE m \in refs : \A n \in refs : n <= m

\* the directive refers to less than the macros it invokes do
IndirectOnly(d) ==
    /\ ~HasStarRef(d.tokens)
    /\ ~NamesGreedyMacro(d.tokens)
    /\ IndirectMax(d.tokens) > DirectMax(d.tokens)

UseDoubleDocument ==
    << <<"Use", " ", "Double", " ", "Bad">>, <<>>, Directive(<<"Double">>), <<"foo">> >>

AllTypeOfUnbound(d) ==
    /\ d.tokens # <<>>
    /\ \A k \in 1..Len(d.tokens) :
          /\ Len(d.tokens[k]) = 3
          /\ d.tokens[k][1] = "Type"
          /\ d.tokens[k][2] = " "
          /\ IsPosPlaceholder(d.tokens[k][3])
          /\ \/ PlaceholderIndex(d.tokens[k][3]) > Len(d.args.pos)
             \/ d.args.pos[PlaceholderIndex(d.tokens[k][3])] \in {<<>>, << <<>> >>}

\* args[1] || args["*"] || ""
FirstOrStar(args) ==
    IF Len(args.pos) >= 1 /\ args.pos[1] \notin {<<>>, << <<>> >>} THEN args.pos[1][1]
    ELSE IF args.star # <<>> THEN args.star[1]
    ELSE <<>>

IsAliasOfDollar2(d) ==
    /\ d.tokens = << <<"Alias", " ", "$1">> >>
    /\ HasMacro(macroRegistry, Name("Alias"))
    /\ macroRegistry[Name("Alias")].fn.body = << <<"Type", " ", "$2">> >>

IsDoubleOfDollar1(d) ==
    /\ d.tokens = <<Name("Double")>>
    /\ Eligible(Name("Double"))

\* C8 (as stated): a token `Type $K` with K unbound, on the directive line
\* or in an alias body, emits the escaped empty string whatever else the
\* directive has bound.
C8_Original ==
    \A i \in 1..Len(outLog) :
        /\ AllTypeOfUnbound(dirLog[i])
              => outLog[i] = [k \in 1..Len(dirLog[i].tokens) |-> formatType(<<>>)]
        /\ IsAliasOfDollar2(dirLog[i]) => outLog[i] = <<formatType(<<>>)>>

\* C8: a reference to an index without a value is replaced by the empty
\* string in the token, at every level; a token `Type $K` left without
\* text emits the escaped form of the payload in effect: on the directive
\* line the first bound argument or else the greedy value, in the body of
\* an alias invoked with an inline argument that argument; it is the empty
\* string when that payload is, as for the tokens `Type $1` an active
\* Double returns to a directive `> Double`.
C8_UnboundIsEmptyText ==
    \A i \in 1..Len(outLog) :
        /\ AllTypeOfUnbound(dirLog[i])
              => outLog[i] = [k \in 1..Len(dirLog[i].tokens) |->
                                  formatType(FirstOrStar(dirLog[i].args))]
        /\ IsAliasOfDollar2(dirLog[i])
              => outLog[i] = <<formatType(FirstOrStar(dirLog[i].args))>>
        /\ IsDoubleOfDollar1(dirLog[i])
              => outLog[i] = <<formatType(<<>>), formatType(<<>>)>>

\* `Type $2` twice with one line left: the line, not "", is what is typed
C8_Witness ==
    /\ pc = "done"
    /\ \E i \in 1..Len(outLog) :
          /\ AllTypeOfUnbound(dirLog[i])
          /\ Len(dirLog[i].tokens) = 2
          /\ FirstOrStar(dirLog[i].args) # <<>>
          /\ outLog[i][1] = formatType(FirstOrStar(dirLog[i].args))

(***************************************************************************)
(* Properties of the body loop                                             *)
(***************************************************************************)

RECURSIVE IsSubseq(_, _)
IsSubseq(a, b) ==
    IF a = <<>> THEN TRUE
    ELSE IF b = <<>> THEN FALSE
    ELSE IF Head(a) = Head(b) THEN IsSubseq(Tail(a), Tail(b))
    ELSE IsSubseq(a, Tail(b))

NotDirective(line) == ~(TrimLeft(line) # <<>> /\ TrimLeft(line)[1] = ">")

\* the 1-based position is a directive that ran or a line one consumed
Covered(p) ==
    \E k \in 1..Len(dirLog) : dirLog[k].index + 1 <= p /\ p <= dirLog[k].newIndex + 1

PassPositions == SelectSeq([p \in 1..Len(bodyLines) |-> p], LAMBDA p : ~Covered(p))

PassLines == [i \in 1..Len(PassPositions) |-> bodyLines[PassPositions[i]]]

\* no registered postExpand hook rewrites the line
LeftAlone(line) ==
    \A k \in 1..Len(transforms.postExpand) :
        PostHook(transforms.postExpand[k], line, <<>>) = OtherResult

\* the output without hooks: from 0-based position p and directive number k
RECURSIVE Expected(_, _)
Expected(p, k) ==
    IF p >= Len(bodyLines) THEN <<>>
    ELSE IF k <= Len(outLog) /\ dirLog[k].index = p
    THEN outLog[k] \o Expected(dirLog[k].newIndex + 1, k + 1)
    ELSE <<bodyLines[p + 1]>> \o Expected(p + 1, k)

\* C9 (as stated): every line after the header that is no directive line is
\* in the output of processText unchanged, and these lines keep their order
\* (taken for an engine without postExpand and finalize hooks).
C9_Original ==
    (pc = "done" /\ transforms.postExpand = <<>> /\ transforms.finalize = <<>>)
        => IsSubseq(SelectSeq(bodyLines, NotDirective), result)

\* C9: when processText returns, every line after the header that is
\* neither a directive that ran nor a line one consumed (as a positional
\* argument, a greedy line or the blank line that ends them) and that no
\* postExpand hook rewrites is in the output unchanged, in the input's
\* order; without postExpand and finalize hooks the output is exactly these
\* lines and the directives' expansions, in the input's order.
C9_PassThrough ==
    pc = "done"
        => /\ IsSubseq(SelectSeq(PassLines, LeftAlone), result)
           /\ (transforms.postExpand = <<>> /\ transforms.finalize = <<>>)
                 => result = Expected(0, 1)

\* a directive consumes the line after it, and the line after that passes
C9_Witness ==
    /\ pc = "done"
    /\ Len(dirLog) = 1
    /\ dirLog[1].index = 0
    /\ dirLog[1].newIndex = 1
    /\ Len(bodyLines) = 3
    /\ NotDirective(bodyLines[3])
    /\ bodyLines[2] # bodyLines[3]
    /\ result = outLog[1] \o <<bodyLines[3]>>

(***************************************************************************)
(* Properties of activation                                                *)
(***************************************************************************)

\* the expander is at a token that is not blank
AtToken(kind) == InLoop(kind) /\ Trim(Top.tokens[Top.idx]) # <<>>

TokenBase == baseCommandName(Trim(Top.tokens[Top.idx]))

\* C10 (as stated): a token that names a registered macro is expanded
\* through the macro's function if and only if the macro is eligible;
\* otherwise it is emitted as literal text and the function is not called.
C10_Original ==
    [][/\ (AtToken("list") /\ Eligible(TokenBase)) => expanded' = expanded
       /\ (AtToken("pre") /\ ~Eligible(TokenBase))
             => calls' = calls /\ expanded' = Append(expanded, Trim(Top.tokens[Top.idx]))
      ]_vars

\* C10: a token that reaches the macro lookup of expandSingleToken (it is
\* not a token a macro returned under the macro's own name, which is
\* emitted as it is, and not the token of an active per-line macro, whose
\* function is never called) is handed to the function of the macro it
\* names if and only if the macro is eligible, unless the recursion or the
\* depth guard fails the run; otherwise the token, after substitution and
\* the preExpandToken hooks, is emitted as literal text and no function is
\* called.
C10_ActivationGating ==
    [][AtToken("pre")
          => IF Eligible(TokenBase)
             THEN /\ expanded' = expanded
                  /\ \/ pc' = "failed" /\ err'.kind \in {"recursion", "depth"} /\ calls' = calls
                     \/ /\ pc' = "expand"
                        /\ Len(calls') = Len(calls) + 1
                        /\ calls'[Len(calls')].name = TokenBase
                        /\ SubSeq(calls', 1, Len(calls)) = calls
             ELSE /\ calls' = calls
                  /\ expanded' = Append(expanded, Trim(Top.tokens[Top.idx]))
                  /\ pc' = "expand"
      ]_vars

\* Double needs a Use line and the document has none: the token is a line
C10_Witness ==
    /\ pc = "done"
    /\ HasMacro(macroRegistry, Name("Double"))
    /\ macroRegistry[Name("Double")].requireUse
    /\ Name("Double") \notin DeclaredUse
    /\ calls = <<>>
    /\ Len(outLog) >= 1
    /\ outLog[1] = <<Name("Double")>>

(***************************************************************************)
(* Properties of the tokens a macro returns under its own name             *)
(***************************************************************************)

\* the macro whose call the innermost expander call belongs to, <<>> for
\* the tokens of the directive line
ReturnedBy == IF Top.stack = <<>> THEN <<>> ELSE Top.stack[Len(Top.stack)]

\* C11: a token that names the macro whose function returned it is added
\* to the expansion as it is, in one step: no function is called for it, no
\* step is counted, no error is raised; and the recursion error never
\* reports a macro that invoked itself directly.
C11_SelfNamePassthrough ==
    [][/\ (AtToken("list") /\ ReturnedBy # <<>> /\ TokenBase = ReturnedBy)
             => /\ expanded' = Append(expanded, Top.tokens[Top.idx])
                /\ calls' = calls
                /\ state' = state
                /\ attempts' = attempts
                /\ pc' = "expand"
                /\ Len(frames') = Len(frames)
       /\ err'.kind = "recursion"
             => err'.chain[Len(err'.chain)] # err'.chain[Len(err'.chain) - 1]
      ]_vars

\* `> Self` for a macro that returns <<"Self">>: one call, the line Self
C11_Witness ==
    /\ pc = "done"
    /\ Len(dirLog) = 1
    /\ dirLog[1].tokens = <<Name("Self")>>
    /\ outLog = << <<Name("Self")>> >>
    /\ Len(calls) = 1
    /\ calls[1].name = Name("Self")
    /\ result = <<Name("Self")>>

(***************************************************************************)
(* Properties of the Type macro's quoting                                  *)
(***************************************************************************)

\* every backslash-backtick pair becomes a backtick again
RECURSIVE Unescape(_)
Unescape(s) ==
    IF s = <<>> THEN <<>>
    ELSE IF Len(s) >= 2 /\ s[1] = BS /\ s[2] = BQ THEN <<BQ>> \o Unescape(SubSeq(s, 3, Len(s)))
    ELSE <<Head(s)>> \o Unescape(Tail(s))

\* the line is `Type `, a backtick, some text and a backtick
IsTypeLine(line) ==
    /\ Len(line) >= 4
    /\ line[1] = "Type"
    /\ line[2] = " "
    /\ line[3] = BQ
    /\ line[Len(line)] = BQ

\* the text of a Type line: prefix and quotes removed, escapes reversed
Decode(line) == Unescape(SubSeq(line, 4, Len(line) - 1))

\* the document is a Type directive and the one line of text it types, run by
\* an engine without hooks
IsQuoteDocument ==
    /\ transforms = EmptyPipeline
    /\ Len(bodyLines) = 2
    /\ bodyLines[1] \in {Directive(<<"Type", " ", "$1">>), Directive(<<"Type">>)}
    /\ Len(outLog) = 1

\* the positions of the first and the last character of t that is no space
FirstInk(t) ==
    CHOOSE i \in 1..(Len(t) + 1) :
        (\A j \in 1..(i - 1) : t[j] = " ") /\ (i <= Len(t) => t[i] # " ")

LastInk(t) ==
    CHOOSE i \in 0..Len(t) :
        (\A j \in (i + 1)..Len(t) : t[j] = " ") /\ (i >= 1 => t[i] # " ")

Unspaced(t) == SubSeq(t, FirstInk(t), LastInk(t))

Wrapped(t, q) == Len(t) >= 2 /\ t[1] = q /\ t[Len(t)] = q

\* C12 (as stated): for every text t the Type macro is given, its output
\* line without the `Type ` prefix and the backtick quotes and with the
\* escapes reversed is exactly t.
C12_Original ==
    IsQuoteDocument
        => /\ Len(outLog[1]) = 1
           /\ IsTypeLine(outLog[1][1])
           /\ Decode(outLog[1][1]) = bodyLines[2]

\* C12: the round trip gives exactly t when t is the payload of a Type
\* token without text of its own (`> Type`), and for every text handed to
\* formatType; a text t written after the word Type (`> Type $1`) is
\* trimmed first, loses a pair of double or single quotes that wraps it,
\* and is emitted after `Type ` as it is when a pair of backticks wraps it;
\* when nothing is left of it, the payload is typed.
C12_TypeRoundTrip ==
    IsQuoteDocument
        => LET t == bodyLines[2]
               u == Unspaced(t)
               line == outLog[1][1]
           IN  /\ Len(outLog[1]) = 1
               /\ IF bodyLines[1] = Directive(<<"Type">>) \/ u = <<>>
                  THEN IsTypeLine(line) /\ Decode(line) = t
                  ELSE IF Wrapped(u, BQ)
                  THEN line = <<"Type", " ">> \o SubSeq(t, 1, LastInk(t))
                  ELSE IF Wrapped(u, DQ) \/ Wrapped(u, SQ)
                  THEN /\ IsTypeLine(line)
                       /\ Decode(line) = IF Len(u) = 2 THEN t ELSE SubSeq(u, 2, Len(u) - 1)
                  ELSE IsTypeLine(line) /\ Decode(line) = u

\* a payload of a backslash, a backtick and a quote comes back as it was
C12_Witness ==
    /\ pc = "done"
    /\ IsQuoteDocument
    /\ bodyLines[1] = Directive(<<"Type">>)
    /\ bodyLines[2] = <<BS, BQ, DQ>>
    /\ result = << <<"Type", " ", BQ, BS, BS, BQ, DQ, BQ>> >>
    /\ Decode(result[1]) = bodyLines[2]

(***************************************************************************)
(* Properties of the guard errors' messages                                *)
(***************************************************************************)

\* the macro names an error of the expander has to report: the stack of
\* the call that failed, and for a recursion the repeated name after it
FailingStack ==
    IF err.kind = "recursion" THEN Append(Top.stack, CurBase) ELSE Top.stack

\* C13 (as stated): a step-limit, recursion or depth error carries the
\* line number of the directive being expanded and the chain of the macro
\* names on the stack when it was raised.
C13_ErrorContext ==
    (pc = "failed" /\ err.kind \in GuardErrors)
        => /\ err.lineNo = <<cur.lineNo>>
           /\ err.chain = FailingStack

(***************************************************************************)
(* Engine instances                                                        *)
(***************************************************************************)

\* a call on the second engine has just been made
OtherEngineStep == otherPending' # otherPending

\* C14: the registry, the pipeline and the guard state belong to one engine:
\* a registerMacros, registerTransform or processText call on the second engine
\* leaves the registry, the hooks, the guard state, the activation set and the
\* output of the first engine as they are, and a step of the first engine
\* leaves the registry and the hooks of the second one as they are
C14_EngineIsolation ==
    [][/\ OtherEngineStep =>
            UNCHANGED <<macroRegistry, transforms, state, useSet, output, result, err>>
       /\ ~OtherEngineStep => UNCHANGED <<otherRegistry, otherTransforms>>]_vars

\* the two engines hold different macros under one name and different hooks, and
\* the first engine has emitted the name of a macro it never activated as it is
C14_Witness ==
    /\ pc = "done"
    /\ otherPending = <<>>
    /\ otherRegistry # BuiltinRegistry
    /\ HasMacro(macroRegistry, Name("Double"))
    /\ macroRegistry[Name("Double")].requireUse
    /\ ~otherRegistry[Name("Double")].requireUse
    /\ HasMacro(otherRegistry, Name("Greet"))
    /\ ~HasMacro(macroRegistry, Name("Greet"))
    /\ transforms = EmptyPipeline
    /\ otherTransforms # EmptyPipeline
    /\ input = <<Directive(<<"Double">>)>>
    /\ result = <<Name("Double")>>

(***************************************************************************)
(* Order of the hooks of a phase                                           *)
(***************************************************************************)

RECURSIVE Concat(_)
Concat(ss) == IF ss = <<>> THEN <<>> ELSE Head(ss) \o Concat(Tail(ss))

\* what a whole-array phase goes on with after a hook answered res to value v
WholeOut(res, v) == IF res.type = "array" THEN res.items ELSE v

\* what a per-item phase puts in the next bucket after a hook answered res to item v
ItemOut(res, v) ==
    IF res.type = "array" /\ res.items # <<>> THEN res.items
    ELSE IF res.type = "string" THEN res.items
    ELSE <<v>>

\* the first hook over x, then the second hook over what the first one produced
HeaderChain(x, hooks) ==
    LET v1 == IF Len(hooks) >= 1 THEN WholeOut(HeaderHook(hooks[1], x), x) ELSE x
    IN  IF Len(hooks) >= 2 THEN WholeOut(HeaderHook(hooks[2], v1), v1) ELSE v1

FinalizeChain(x, hooks) ==
    LET v1 == IF Len(hooks) >= 1 THEN WholeOut(FinalizeHook(hooks[1], x), x) ELSE x
    IN  IF Len(hooks) >= 2 THEN WholeOut(FinalizeHook(hooks[2], v1), v1) ELSE v1

PreOver(h, bucket) ==
    Concat([k \in 1..Len(bucket) |-> ItemOut(PreHook(h, bucket[k]), bucket[k])])

PreChain(x, hooks) ==
    LET b1 == IF Len(hooks) >= 1 THEN PreOver(hooks[1], <<x>>) ELSE <<x>>
    IN  IF Len(hooks) >= 2 THEN PreOver(hooks[2], b1) ELSE b1

PostOver(h, bucket, base) ==
    Concat([k \in 1..Len(bucket) |-> ItemOut(PostHook(h, bucket[k], base), bucket[k])])

PostChain(x, hooks, base) ==
    LET b1 == IF Len(hooks) >= 1 THEN PostOver(hooks[1], <<x>>, base) ELSE <<x>>
    IN  IF Len(hooks) >= 2 THEN PostOver(hooks[2], b1, base) ELSE b1

\* C15: within a phase the hooks run in registration order and each hook gets
\* what the hook before it produced: the tokens of a directive are the header
\* hooks chained over the split line, the tokens expanded for a token are the
\* preExpandToken hooks chained over the substituted token, the lines emitted for
\* a line that is not a directive are the postExpand hooks chained over it, and
\* the returned lines are the finalize hooks chained over the output
C15_HookOrder ==
    [][/\ \A p \in Phases : Len(transforms[p]) <= 2
       /\ (Len(dirLog') = Len(dirLog) + 1) =>
              dirLog'[Len(dirLog')].tokens =
                  HeaderChain(DirectiveTokens(bodyLines[cursor + 1]), transforms.header)
       /\ (pc = "expand" /\ attempts' = attempts + 1 /\ Len(frames') = Len(frames) + 1) =>
              frames'[Len(frames')].tokens =
                  PreChain(substituteArgs(Top.tokens[Top.idx], Top.args),
                           transforms.preExpandToken)
       /\ (pc = "body" /\ cursor' = cursor + 1 /\ pc' = "body") =>
              output' = output \o PostChain(bodyLines[cursor + 1], transforms.postExpand,
                                            state.lastEmittedBase)
       /\ (pc # "done" /\ pc' = "done") =>
              result' = FinalizeChain(output, transforms.finalize)]_vars

\* a document went through two hooks in each of three phases: Multi became a Type
\* line and Enter, the second preExpandToken hook turned that Enter into Enter 2,
\* the plain line Enter got a Sleep from the first postExpand hook that the
\* second one changed, and the finalize hooks appended Done and then doubled
C15_Witness ==
    /\ pc = "done"
    /\ transforms.preExpandToken = <<"testPre", "twice">>
    /\ transforms.postExpand = <<"testPost", "slow">>
    /\ transforms.finalize = <<"done", "dup">>
    /\ input = <<Directive(<<"Multi", " ", "$1", ",", " ", "Enter">>), <<"hi">>, <<"Enter">>>>
    /\ output = <<formatType(<<"hi", "!">>), <<"Enter", " ", "2">>, <<"Enter", " ", "2">>,
                  <<"Sleep", " ", "2s">>, <<"Enter">>>>
    /\ result = output \o << <<"Done">> >> \o output \o << <<"Done">> >>

(***************************************************************************)
(* Registration of macros                                                  *)
(***************************************************************************)

\* the alias declarations of the header of a document, line by line
AliasDeclarations(lines) ==
    LET last == parseFileHeader(lines, "off").bodyStart
        IsDecl(k) == /\ ~isBlankLine(lines[k])
                     /\ ~isComment(lines[k])
                     /\ ~tryParseUseStatement(lines[k]).matched
                     /\ tryParseAlias(lines[k]).hasMacro
        decls == {k \in 1..last : IsDecl(k)}
        Nth(n) == CHOOSE k \in decls : Cardinality({j \in decls : j < k}) = n - 1
    IN  [n \in 1..Cardinality(decls) |->
            [name |-> tryParseAlias(lines[Nth(n)]).name,
             fn |-> makeAliasMacro(tryParseAlias(lines[Nth(n)]).body)]]

\* the registrations, among a sequence of them, of a name that is known already
RECURSIVE ReRegistered(_, _)
ReRegistered(known, regs) ==
    IF regs = <<>> THEN <<>>
    ELSE (IF Head(regs).name \in known THEN <<Head(regs).name>> ELSE <<>>)
         \o ReRegistered(known \cup {Head(regs).name}, Tail(regs))

\* the last registration of a name among a sequence of them
LastOf(regs, name) ==
    regs[CHOOSE k \in 1..Len(regs) :
            /\ regs[k].name = name
            /\ \A j \in (k + 1)..Len(regs) : regs[j].name # name]

\* a sequence of registrations, made with an activation flag, has taken effect:
\* every name of it resolves to its last registration, the other names are as
\* they were, and every re-registration has been warned about if warnings are on
Registered(regs, requireUse) ==
    /\ DOMAIN macroRegistry' = DOMAIN macroRegistry \cup {regs[k].name : k \in 1..Len(regs)}
    /\ \A n \in DOMAIN macroRegistry' :
          macroRegistry'[n] =
              IF \E k \in 1..Len(regs) : regs[k].name = n
              THEN [fn |-> LastOf(regs, n).fn, requireUse |-> requireUse]
              ELSE macroRegistry[n]
    /\ warnings' = warnings \o (IF options.warnOnMacroCollision
                                THEN ReRegistered(DOMAIN macroRegistry, regs)
                                ELSE <<>>)

\* C16: after every registration a name resolves to the function and the flag of
\* its most recent registration, and each re-registration of a registered name,
\* the built-in Type included, is warned about unless warnOnMacroCollision is
\* false; the registrations are the entries of a registerMacros call and the
\* alias declarations of the header of the document
C16_LastWinsAndWarns ==
    [][/\ (pc = "ready" /\ pending' # pending) =>
              Registered(IF Head(pending).op = "macros" THEN Head(pending).pairs ELSE <<>>,
                         Head(pending).requireUse)
       /\ (pc = "ready" /\ pc' = "body") =>
              Registered(AliasDeclarations(input), FALSE)]_vars

\* the same with the aliases of a header taken as the one registerMacros call
\* the engine makes for them: a name declared twice in a header is one entry,
\* the later declaration
C16_PerCallEntry ==
    [][/\ (pc = "ready" /\ pending' # pending) =>
              Registered(IF Head(pending).op = "macros" THEN Head(pending).pairs ELSE <<>>,
                         Head(pending).requireUse)
       /\ (pc = "ready" /\ pc' = "body") =>
              Registered(parseFileHeader(input, "off").macrosFromHeader, FALSE)]_vars

\* Foo registered twice and Type registered again, each warned about once, and
\* the header alias Foo warned about once more; Foo resolves to the alias
C16_Witness ==
    /\ pc = "done"
    /\ options.warnOnMacroCollision
    /\ warnings = <<Name("Foo"), Name("Type"), Name("Foo")>>
    /\ macroRegistry[Name("Foo")] = [fn |-> makeAliasMacro(<< <<"Enter">> >>),
                                    requireUse |-> FALSE]
    /\ macroRegistry[Name("Type")].requireUse
    /\ input = << <<"Foo", " ", "=", " ", "Enter">>, <<>>, Directive(<<"Foo">>) >>
    /\ result = << <<"Enter">> >>

(***************************************************************************)
(* The step counter                                                        *)
(***************************************************************************)

\* the expander is at a token of a list it walks that it hands on to
\* expandTokenRecursive: not blank, not the name of the macro that returned it,
\* not a call of an active per-line macro
TokenEntered ==
    /\ AtToken("list")
    /\ TokenBase # ReturnedBy
    /\ ~(Eligible(TokenBase) /\ macroRegistry[TokenBase].fn.eachLine)

\* C17 (as stated): the step counter goes up by one for every token the
\* expander considers: every token of a list it walks, and every further token
\* the preExpandToken hooks fanned a token out to
C17_Original ==
    [][/\ (AtToken("list") /\ pc' # "failed") =>
              state'.expansionSteps = state.expansionSteps + 1
       /\ (AtToken("pre") /\ Top.idx > 1 /\ pc' # "failed") =>
              state'.expansionSteps = state.expansionSteps + 1]_vars

\* C17: the step counter goes up by exactly one per call of the recursive
\* expander, that is for every token of a directive or of a macro's result that
\* is handed on to it, and at no other time: the tokens the preExpandToken hooks
\* fan one token out to share that one step, and a blank token, a returned
\* token that names the macro that returned it, and the token of a per-line
\* macro take no step (the counter starts again with every processText call)
C17_StepPerInvocation ==
    [][pc' # "ready" =>
          /\ state'.expansionSteps \in {state.expansionSteps, state.expansionSteps + 1}
          /\ (state'.expansionSteps = state.expansionSteps + 1)
                 <=> (TokenEntered /\ pc' # "failed")]_vars

\* Multi hi was fanned out to a Type line and Enter, Type was called and returned
\* its own line, and the directive's two tokens took two steps
C17_Witness ==
    /\ pc = "done"
    /\ input = <<Directive(<<"Multi", " ", "$1", ",", " ", "Enter">>), <<"hi">>>>
    /\ transforms.preExpandToken = <<"testPre", "twice">>
    /\ Len(calls) = 1
    /\ calls[1].name = Name("Type")
    /\ output = <<formatType(<<"hi", "!">>), <<"Enter", " ", "2">>, <<"Enter", " ", "2">>>>
    /\ state.expansionSteps = 2

\* C18: within one processText call the step counter never decreases and is not
\* reset when a directive starts: it is the number of expander calls let
\* through for the whole document so far, it never exceeds maxExpansionSteps,
\* and the call that would exceed it raises the step-limit error, whichever
\* directive it belongs to
C18_SharedCounter ==
    [][/\ pc \in {"body", "expand"} => state'.expansionSteps >= state.expansionSteps
       /\ (Len(dirLog') = Len(dirLog) + 1) =>
              /\ state'.expansionSteps = state.expansionSteps
              /\ dirLog'[Len(dirLog')].stepsAtStart = state'.expansionSteps
       /\ pc' # "ready" =>
              state'.expansionSteps = attempts' - (IF err'.kind = "steps" THEN 1 ELSE 0)
       /\ state'.expansionSteps <= options.maxExpansionSteps
       /\ (TokenEntered /\ attempts >= options.maxExpansionSteps) =>
              /\ pc' = "failed"
              /\ err'.kind = "steps"
       /\ (TokenEntered /\ attempts < options.maxExpansionSteps) => err'.kind # "steps"]_vars

\* two directives that need four expander calls each under a limit of five: the
\* first one is expanded, the second one raises the step-limit error at its
\* second call
C18_Witness ==
    /\ pc = "failed"
    /\ err.kind = "steps"
    /\ options.maxExpansionSteps = 5
    /\ input = <<Directive(<<"M2">>), Directive(<<"M2">>)>>
    /\ outLog = << <<Name("done")>> >>
    /\ Len(dirLog) = 2
    /\ dirLog[1].stepsAtStart = 0
    /\ dirLog[2].stepsAtStart = 4
    /\ state.expansionSteps = 5

(***************************************************************************)
(* Every body line is handled once                                         *)
(***************************************************************************)

\* the 0-based index of the last line directive d consumes: its positional
\* lines, then for a greedy argument the lines up to a blank line or the end of
\* the input, and that blank line
LastConsumed(d) ==
    LET s == d.index + d.effectiveMaxIdx
        n == RunLen(s + 1)
    IN  IF ~d.hasStar THEN s
        ELSE IF s + n + 1 < Len(bodyLines) THEN s + n + 1
        ELSE s + n

\* the directives that took the line at a 1-based position, as the directive
\* line itself or as a line consumed
TakenBy(p) == {k \in 1..Len(dirLog) : dirLog[k].index + 1 <= p /\ p <= dirLog[k].newIndex + 1}

\* C19: the body lines are handled one by one in input order, each once: a line
\* is executed as a directive or emitted as a pass-through line only when no
\* earlier directive consumed it, even when it begins with the directive mark;
\* a directive consumes the lines up to LastConsumed and nothing more, and when
\* it is done the next line handled is the one after them
C19_EachLineOnce ==
    [][/\ cursor' # cursor =>
              pc = "body" \/ Len(outLog') = Len(outLog) + 1 \/ pc' = "ready"
       /\ (pc = "body" /\ pc' = "body" /\ cursor' # cursor) =>
              /\ cursor' = cursor + 1
              /\ TakenBy(cursor + 1) = {}
              /\ NotDirective(bodyLines[cursor + 1])
              /\ transforms.postExpand = <<>> =>
                     output' = Append(output, bodyLines[cursor + 1])
       /\ (Len(dirLog') = Len(dirLog) + 1) =>
              LET d == dirLog'[Len(dirLog')]
              IN  /\ d.index = cursor
                  /\ cursor' = cursor
                  /\ TakenBy(cursor + 1) = {}
                  /\ ~NotDirective(bodyLines[cursor + 1])
                  /\ d.newIndex = LastConsumed(d)
                  /\ output' = output
       /\ (Len(outLog') = Len(outLog) + 1) =>
              /\ cursor = cur.index
              /\ cursor' = LastConsumed(cur) + 1
       /\ pc' = "done" =>
              /\ cursor' >= Len(bodyLines)
              /\ \A p \in 1..Len(bodyLines) : Cardinality(TakenBy(p)) <= 1
              /\ Len(outLog) = Len(dirLog)]_vars

\* a directive took the directive line after it as its argument: that line was
\* typed, not executed, and the line after it passed through
C19_Witness ==
    /\ pc = "done"
    /\ input = <<Directive(<<"Type", " ", "$1", ",", " ", "Enter">>), Directive(<<"Type">>),
                 <<"hello">>>>
    /\ Len(dirLog) = 1
    /\ dirLog[1].newIndex = 1
    /\ result = <<formatType(Directive(<<"Type">>)), <<"Enter">>, <<"hello">>>>

(***************************************************************************)
(* Argument text is data                                                   *)
(***************************************************************************)

\* one pass over the token: every placeholder of the token itself gives way to
\* its value, and the values are not looked at again
InsertVerbatim(str, args) ==
    Concat([k \in 1..Len(str) |->
               IF IsStarPlaceholder(str[k]) THEN OrEmpty(args.star)
               ELSE IF IsPosPlaceholder(str[k])
               THEN OrEmpty(ArgAt(args, PlaceholderIndex(str[k])))
               ELSE <<str[k]>>])

\* the token at hand was returned by an alias, which has put the values in
ReturnedByAlias ==
    /\ ReturnedBy # <<>>
    /\ macroRegistry[ReturnedBy].fn.kind = "alias"
    /\ TokenBase # Name("EachLine")

\* C20: the text of the argument lines is inserted as it is: the expander puts
\* the values in place of the placeholders of the token and does not take a $N
\* or $* inside a value for a placeholder, neither in that substitution nor
\* when a token an alias has already filled in is expanded again
C20_VerbatimArguments ==
    [][(transforms.preExpandToken = <<>> /\ TokenEntered /\ attempts' = attempts + 1
            /\ pc' = "expand") =>
          frames'[Len(frames')].tokens =
              <<IF ReturnedByAlias THEN Top.tokens[Top.idx]
                ELSE InsertVerbatim(Top.tokens[Top.idx], Top.args)>>]_vars

\* the alias Say was called with the argument line echo $2 and what came out
\* is Echo echo: the $2 of the line was taken for a placeholder
C20_Witness ==
    /\ pc = "done"
    /\ input = << <<"Say", " ", "=", " ", "Echo", " ", "$1">>, <<>>,
                  Directive(<<"Say", " ", "$1">>), <<"echo", " ", "$2">> >>
    /\ result = << <<"Echo", " ", "echo">> >>

\* the greedy value $1 was put in place of $* and then taken for the first
\* placeholder: the second line typed is Echo x, not Echo $1
C20_SameSubstitution ==
    /\ pc = "done"
    /\ input = << <<"Say", " ", "=", " ", "Echo", " ", "$1">>, <<>>,
                  Directive(<<"Echo", " ", "$1", ",", " ", "Echo", " ", "$*">>),
                  <<"x">>, <<"$1">> >>
    /\ result = << <<"Echo", " ", "x">>, <<"Echo", " ", "x">> >>

(***************************************************************************)
(* Per-line expansion                                                      *)
(***************************************************************************)

IsPrefixOf(a, b) == Len(a) <= Len(b) /\ SubSeq(b, 1, Len(a)) = a

\* the lines of the greedy argument of directive d, read from the body
GreedyLines(d) ==
    LET s == d.index + d.effectiveMaxIdx
    IN  [i \in 1..RunLen(s + 1) |-> bodyLines[s + 1 + i]]

\* the token at hand calls an eligible macro that carries the per-line marker
AtPerLineCall ==
    /\ AtToken("list")
    /\ TokenBase # ReturnedBy
    /\ Eligible(TokenBase)
    /\ macroRegistry[TokenBase].fn.eachLine

\* C21: at the token of an active per-line macro the walk over the directive's
\* tokens ends (the tokens before it have been expanded, the later ones are
\* left to the template), the template is expanded once for every non-empty
\* line of the greedy argument, in line order, with the line as payload, as $1
\* and as $*, the lines that come out are appended in that order, and an empty
\* greedy argument gives no iteration
C21_PerLineExpansion ==
    [][/\ (pc = "expand" /\ pc' = "expand") => IsPrefixOf(expanded, expanded')
       /\ (AtPerLineCall /\ pc' = "expand") =>
              /\ Len(frames') = Len(frames) + 1
              /\ frames'[Len(frames)].idx = Len(Top.tokens) + 1
              /\ frames'[Len(frames')].kind = "each"
              /\ frames'[Len(frames')].idx = 1
              /\ expanded' = expanded
              /\ Len(frames) = 1 => frames'[Len(frames')].lines = GreedyLines(cur)
       /\ (InLoop("each") /\ pc' = "expand") =>
              LET line == Top.lines[Top.idx]
              IN  /\ frames'[Len(frames)] = [Top EXCEPT !.idx = @ + 1]
                  /\ expanded' = expanded
                  /\ IF line = <<>> THEN Len(frames') = Len(frames)
                     ELSE /\ Len(frames') = Len(frames) + 1
                          /\ frames'[Len(frames')].kind = "list"
                          /\ frames'[Len(frames')].idx = 1
                          /\ frames'[Len(frames')].tokens = Top.tokens
                          /\ frames'[Len(frames')].payload = line
                          /\ frames'[Len(frames')].args.star = <<line>>
                          /\ frames'[Len(frames')].args.pos[1] = <<line>>
                          /\ \A k \in 2..Len(Top.args.pos) :
                                frames'[Len(frames')].args.pos[k] = Top.args.pos[k]
       /\ (Len(outLog') = Len(outLog) + 1 /\ Eligible(Name("EachLine"))) =>
              LET ls == GreedyLines(cur)
                  out == outLog'[Len(outLog')]
              IN  /\ cur.tokens = << <<"EachLine", " ", "Type", " ", "$1">> >> =>
                         out = [i \in 1..Len(ls) |-> formatType(ls[i])]
                  /\ cur.tokens = << <<"Type", " ", "x">>, <<"EachLine", " ", "Enter">> >> =>
                         out = <<formatType(<<"x">>)>> \o [i \in 1..Len(ls) |-> <<"Enter">>]]_vars

\* EachLine Type $1 over the lines a and b typed a and then b
C21_Witness ==
    /\ pc = "done"
    /\ input = << <<"Use", " ", "EachLine">>, <<>>,
                  Directive(<<"EachLine", " ", "Type", " ", "$1">>), <<"a">>, <<"b">> >>
    /\ result = <<formatType(<<"a">>), formatType(<<"b">>)>>

\* the text of a token after its first word
AfterName(tok) ==
    LET t == Trim(tok)
    IN  Trim(SubSeq(t, Len(baseCommandName(t)) + 1, Len(t)))

\* the later tokens of a list, trimmed, the blank ones dropped
LaterTokens(tokens, idx) ==
    LET rest == [k \in 1..(Len(tokens) - idx) |-> Trim(tokens[idx + k])]
    IN  SelectSeq(rest, LAMBDA t : t # <<>>)

\* C22: for every active macro that carries the per-line marker, whatever its
\* name, the template captured at its token is the text after the macro's name
\* followed by the later tokens of the line, so the template does not call the
\* macro again, and a per-line expansion never ends in the exhaustion of the
\* host's stack
C22_TemplateWithoutCall ==
    [][/\ (AtPerLineCall /\ pc' = "expand") =>
              frames'[Len(frames')].tokens =
                  (IF AfterName(Top.tokens[Top.idx]) # <<>>
                   THEN <<AfterName(Top.tokens[Top.idx])>> ELSE <<>>)
                  \o LaterTokens(Top.tokens, Top.idx)
       /\ err'.kind # "RangeError"]_vars

\* the same for the macro of the packs, whose name is EachLine
C22_NamedEachLine ==
    [][(AtPerLineCall /\ TokenBase = Name("EachLine") /\ pc' = "expand") =>
              frames'[Len(frames')].tokens =
                  (IF AfterName(Top.tokens[Top.idx]) # <<>>
                   THEN <<AfterName(Top.tokens[Top.idx])>> ELSE <<>>)
                  \o LaterTokens(Top.tokens, Top.idx)]_vars

(***************************************************************************)
(* Hooks that fan out                                                      *)
(***************************************************************************)

\* an array of any length takes the place of the item, a string too
ReplacedBy(res, v) ==
    IF res.type = "array" THEN res.items
    ELSE IF res.type = "string" THEN res.items
    ELSE <<v>>

PreReplaced(x, hooks) ==
    LET Over(h, bucket) ==
            Concat([k \in 1..Len(bucket) |-> ReplacedBy(PreHook(h, bucket[k]), bucket[k])])
        b1 == IF Len(hooks) >= 1 THEN Over(hooks[1], <<x>>) ELSE <<x>>
    IN  IF Len(hooks) >= 2 THEN Over(hooks[2], b1) ELSE b1

PostReplaced(x, hooks, base) ==
    LET Over(h, bucket) ==
            Concat([k \in 1..Len(bucket) |->
                       ReplacedBy(PostHook(h, bucket[k], base), bucket[k])])
        b1 == IF Len(hooks) >= 1 THEN Over(hooks[1], <<x>>) ELSE <<x>>
    IN  IF Len(hooks) >= 2 THEN Over(hooks[2], b1) ELSE b1

\* C23: in the preExpandToken and postExpand phases the k tokens of an array a
\* hook returns take the place of the token for every k, zero included: a token
\* answered with the empty array is not expanded, a line answered with the
\* empty array is not emitted
C23_ArrayReplaces ==
    [][/\ (TokenEntered /\ attempts' = attempts + 1 /\ pc' = "expand") =>
              frames'[Len(frames')].tokens =
                  PreReplaced(substituteArgs(Top.tokens[Top.idx], Top.args),
                              transforms.preExpandToken)
       /\ (pc = "body" /\ cursor' = cursor + 1 /\ pc' = "body") =>
              output' = output \o PostReplaced(bodyLines[cursor + 1], transforms.postExpand,
                                               state.lastEmittedBase)]_vars

\* the line Enter, answered with the empty array by the postExpand hook, is in
\* the output all the same, and so is the token Skip hi answered with the empty
\* array by the preExpandToken hook
C23_Witness ==
    /\ pc = "done"
    /\ transforms.preExpandToken = <<"drop">>
    /\ transforms.postExpand = <<"mute">>
    /\ input = <<Directive(<<"Skip", " ", "$1", ",", " ", "Type", " ", "$1">>),
                 <<"hi">>, <<"Enter">>>>
    /\ result = << <<"Skip", " ", "hi">>, formatType(<<"hi">>), <<"Enter">> >>

(***************************************************************************)
(* The binding of a directive's arguments                                  *)
(***************************************************************************)

\* the K-th line under the directive in progress
ConsumedLine(K) == bodyLines[cur.index + K + 1]

\* a frame of the expansion was pushed by this step
Pushed == pc = "expand" /\ pc' = "expand" /\ Len(frames') = Len(frames) + 1

\* the text after the name of a token
InlineText(tok) == AfterName(Trim(tok))

NamesFlagged(tokens, eligible) ==
    \E k \in 1..Len(tokens) :
        LET base == baseCommandName(Trim(tokens[k]))
        IN  /\ HasMacro(macroRegistry, base)
            /\ Eligible(base) = eligible
            /\ macroRegistry[base].fn.hasStar \/ macroRegistry[base].fn.eachLine

\* C25: a macro that is registered but not eligible in the document has no
\* effect on the lines a directive consumes: a directive naming a greedy or
\* per-line macro that is not eligible consumes the lines of its own
\* references, as it would if the macro were not registered
C25_InertMacroConsumesNothing ==
    \A i \in 1..Len(dirLog) :
        LET d == dirLog[i]
            n == DirectMax(d.tokens)
        IN  (/\ NamesFlagged(d.tokens, FALSE)
             /\ ~NamesFlagged(d.tokens, TRUE)
             /\ ~HasStarRef(d.tokens))
                => d.newIndex - d.index = (IF n = 0 /\ HasBareType(d.tokens) THEN 1 ELSE n)

\* Block needs a Use line the document does not have: the token is emitted
\* as it stands and the two lines under it are consumed all the same
C25_LinesSwallowed ==
    /\ pc = "done"
    /\ input = <<Directive(<<"Block">>), <<"a">>, <<"a">>>>
    /\ result = << <<"Block">> >>

(***************************************************************************)
(* Documents one after another on one engine                               *)
(***************************************************************************)

\* the names the headers of the finished documents declared as aliases
EarlierAliases ==
    UNION {{AliasDeclarations(earlier[k].input)[n].name :
               n \in 1..Len(AliasDeclarations(earlier[k].input))} : k \in 1..Len(earlier)}

\* C26: documents processed one after another on one engine do not touch
\* each other: the Use declarations, the header aliases, the step count and
\* the last emitted command of a finished document are gone when the next
\* one starts, so the second document, which has no header, gives what it
\* gives on an engine that has processed nothing, Greet and Loud as they stand
C26_NoCarryOver ==
    /\ (earlier # <<>> /\ pc = "ready") =>
           /\ \A n \in EarlierAliases : ~HasMacro(macroRegistry, n)
           /\ useSet = {}
           /\ state = [lastEmittedBase |-> <<>>, expansionSteps |-> 0]
    /\ (earlier # <<>> /\ pc = "body" /\ cursor = 0) =>
           /\ useSet = DeclaredUse
           /\ state = [lastEmittedBase |-> <<>>, expansionSteps |-> 0]
    /\ (pc = "done" /\ input = SecondDocument) => result = <<Name("Greet"), Name("Loud")>>

\* the same without the aliases: the Use declarations, the step count and the
\* last emitted command belong to the call
C26_PerCallState ==
    /\ (earlier # <<>> /\ pc = "ready") =>
           /\ useSet = {}
           /\ state = [lastEmittedBase |-> <<>>, expansionSteps |-> 0]
    /\ (earlier # <<>> /\ pc = "body" /\ cursor = 0) =>
           /\ useSet = DeclaredUse
           /\ state = [lastEmittedBase |-> <<>>, expansionSteps |-> 0]
    /\ (pc = "done" /\ input = SecondDocument /\ earlier = <<>>)
           => result = <<Name("Greet"), Name("Loud")>>

\* the alias Greet of the first document is expanded in the second one
C26_AliasCarriedOver ==
    /\ pc = "done"
    /\ earlier # <<>>
    /\ input = SecondDocument
    /\ Name("Greet") \in EarlierAliases
    /\ result = <<formatType(<<"hi">>), Name("Loud")>>

(***************************************************************************)
(* The last emitted command                                                *)
(***************************************************************************)

\* the first word of a line, "" for a line of white space
FirstWord(l) == IF SplitWs(l) = <<>> THEN <<>> ELSE SplitWs(l)[1]

\* the first word of the last line with a word among the first n lines
RECURSIVE WordBefore(_, _)
WordBefore(out, n) ==
    IF n = 0 THEN <<>>
    ELSE IF FirstWord(out[n]) # <<>> THEN FirstWord(out[n])
    ELSE WordBefore(out, n - 1)

\* the line is tagged with the value b: it ends with " #" and b
TaggedWith(l, b) ==
    /\ Len(l) >= Len(b) + 2
    /\ SubSeq(l, Len(l) - Len(b) - 1, Len(l)) = <<" ", "#">> \o b
    /\ \A j \in 1..(Len(l) - Len(b) - 1) : l[j] # "#"

\* C27: the lastLineBase a postExpand hook is given for a line is the leading
\* word of the last non-blank line appended to the output before it, "" if
\* there is none (a hook that tags every line with the value it is given has
\* tagged each line so); a blank line appended leaves the value as it is; the
\* value is at all times the leading word of the last non-blank line of the
\* output, so it changes only where the emitter appends a line
C27_LastLineBase ==
    /\ state.lastEmittedBase = WordBefore(output, Len(output))
    /\ transforms.postExpand = <<"after">> =>
           \A k \in 1..Len(output) :
               FirstWord(output[k]) # <<>> => TaggedWith(output[k], WordBefore(output, k - 1))

\* Sleep 1s, a blank line, Sleep 1s: the blank line is in the output and the
\* hook was given Sleep for the line after it
C27_Witness ==
    /\ pc = "done"
    /\ transforms.postExpand = <<"after">>
    /\ input = << <<"Sleep", " ", "1s">>, <<>>, <<"Sleep", " ", "1s">> >>
    /\ output = << <<"Sleep", " ", "1s", " ", "#">>, <<>>,
                   <<"Sleep", " ", "1s", " ", "#", "Sleep">> >>
    /\ state.lastEmittedBase = <<"Sleep">>

(***************************************************************************)
(* The stack of macros in progress                                         *)
(***************************************************************************)

\* the frames, among the first n, that hold the result of a macro call: a
\* list entered from the fan-out of a token
RECURSIVE InProgress(_)
InProgress(n) ==
    IF n <= 1 THEN <<>>
    ELSE InProgress(n - 1)
         \o (IF frames[n].kind = "list" /\ frames[n - 1].kind = "pre"
             THEN <<frames[n].blockBase>> ELSE <<>>)

NoDuplicates(seq) == \A i, j \in 1..Len(seq) : seq[i] = seq[j] => i = j

\* C28: the stack checked when a macro is invoked holds exactly the macros
\* in progress on the path from the top-level token of the directive down to
\* the caller, each once; it holds nothing of finished sibling tokens, of
\* earlier tokens of the line or of earlier directives: every directive
\* starts with the empty stack, a recursion error is raised only for a macro
\* that is in progress, and the second Once of Twice and the Once of a second
\* directive raise none
C28_StackIsPath ==
    [][/\ pc = "expand" =>
              \A i \in 1..Len(frames) :
                  /\ frames[i].stack = InProgress(i)
                  /\ NoDuplicates(frames[i].stack)
       /\ (pc = "body" /\ pc' = "expand") => frames'[1].stack = <<>>
       /\ (pc = "expand" /\ err'.kind = "recursion") =>
              \E k \in 1..Len(InProgress(Len(frames))) :
                  InProgress(Len(frames))[k] = TokenBase
       /\ (AtToken("pre") /\ TokenBase = Name("Once")) => err'.kind # "recursion"]_vars

\* Twice has returned Once twice, a second directive names Once again, and
\* all three are expanded
C28_Witness ==
    /\ pc = "done"
    /\ input = <<Directive(<<"Twice">>), Directive(<<"Once">>)>>
    /\ result = << <<"Enter">>, <<"Enter">>, <<"Enter">> >>
    /\ Len(calls) = 4

(***************************************************************************)
(* Declarations that declare nothing                                       *)
(***************************************************************************)

\* the characters of a line that are not white space
Inked(line) == SelectSeq(line, LAMBDA c : ~IsSpace(c))

\* an identifier, "=", and then nothing but white space and commas
IsEmptyAlias(line) ==
    /\ Len(Inked(line)) >= 2
    /\ IsWordChar(Inked(line)[1])
    /\ Inked(line)[2] = "="
    /\ \A j \in 3..Len(Inked(line)) : Inked(line)[j] = ","

\* the same with at least one character, white space or a comma, after "="
IsEmptyAliasWithRest(line) == IsEmptyAlias(line) /\ line[Len(line)] # "="

IsBareUse(line) == Inked(line) = <<"Use">>

\* the document is read on: the first line is no body line, it has
\* registered and activated nothing, and the alias on the second line counts
ReadOn ==
    /\ bodyStartIndex >= 2
    /\ ~HasMacro(macroRegistry, Name("Foo"))
    /\ useSet = {}
    /\ HasMacro(macroRegistry, Name("Greet"))
    /\ \A k \in 1..Len(output) : output[k] # input[1]

OpensWith(P(_)) ==
    /\ pc \in {"body", "expand", "done"}
    /\ earlier = <<>>
    /\ Len(input) >= 2
    /\ P(input[1])
    /\ input[2] = GreetAlias

\* C29: an alias declaration with an empty right-hand side (an identifier,
\* "=", then nothing or only white space and commas) and a Use declaration
\* without names are no-ops: nothing is registered or activated, the line is
\* not emitted, and the header is read on, the declaration after it counts
C29_EmptyDeclarationsAreNoOps ==
    /\ OpensWith(IsEmptyAlias) => ReadOn
    /\ OpensWith(IsBareUse) => ReadOn

\* the same holds when at least one character follows the "="
C29_WithRest ==
    /\ OpensWith(IsEmptyAliasWithRest) => ReadOn
    /\ OpensWith(IsBareUse) => ReadOn

\* "Foo =" with nothing behind it ends the header: the line and the alias
\* declaration after it are body lines, and Greet is no macro
C29_HeaderEnded ==
    /\ pc = "done"
    /\ input = << <<"Foo", " ", "=">>, GreetAlias, <<>>, Directive(<<"Greet">>) >>
    /\ result = << <<"Foo", " ", "=">>, GreetAlias, <<>>, Name("Greet") >>

\* "Foo = " and "Use" are passed over and Greet is expanded
C29_ReadOnReached ==
    /\ pc = "done"
    /\ OpensWith(IsEmptyAliasWithRest)
    /\ Len(input) = 4
    /\ input[4] = Directive(<<"Greet">>)
    /\ result = <<formatType(<<"hi">>)>>

(***************************************************************************)
(* Header validation                                                       *)
(***************************************************************************)

Validating == pc # "ready" /\ options.headerValidation \in {"warn", "error"}

\* the header validation has warned or thrown
HeaderIssue ==
    \/ err.kind = "header"
    \/ \E k \in 1..Len(warnings) :
           warnings[k] \in {"directiveInHeader", "malformedAlias", "emptyUse", "emptyAlias"}

\* a line that starts, after white space, with the directive mark
StartsDirective(line) == Inked(line) # <<>> /\ Inked(line)[1] = ">"

\* the position of the first directive of the document, 0 if it has none
FirstDirective ==
    IF \E k \in 1..Len(input) : StartsDirective(input[k])
    THEN CHOOSE k \in 1..Len(input) :
            StartsDirective(input[k]) /\ \A j \in 1..(k - 1) : ~StartsDirective(input[j])
    ELSE 0

\* header declarations, a blank line, the first directive
DocumentedLayout ==
    /\ FirstDirective >= 3
    /\ Inked(input[FirstDirective - 1]) = <<>>
    /\ \A k \in 1..(FirstDirective - 2) : input[k] = GreetAlias

\* C30: with headerValidation "warn" or "error" a document in the
\* documented layout (header declarations, a blank line, the first directive)
\* gives no header warning and no header error; a directive is reported as
\* found in the header only when it follows header content without a blank
\* line in between
C30_LayoutAccepted ==
    Validating =>
        /\ DocumentedLayout => ~HeaderIssue
        /\ HeaderIssue =>
               /\ FirstDirective >= 2
               /\ Inked(input[FirstDirective - 1]) # <<>>

\* the documented layout read in mode "error": processText throws at the
\* line of the directive
C30_LayoutRejected ==
    /\ pc = "failed"
    /\ options.headerValidation = "error"
    /\ input = <<GreetAlias, <<>>, Directive(<<"Greet">>)>>
    /\ err = [kind |-> "header", lineNo |-> Some(3), chain |-> <<>>]

====
